---- MODULE Spec2Model ----
(***************************************************************************)
(* Model of the Economia back end (src/server.js, the version that starts  *)
(* at line 1138: the one with week closing, cash balances and the lazy     *)
(* weekly cash withdrawal).                                                *)
(*                                                                         *)
(* The state is the content of the PostgreSQL schema "economia" (tables    *)
(* month, week, transaction, piggy_bank_entry), the server's clock, the    *)
(* last HTTP response and the requests in flight.  Every route handler is  *)
(* one action; a handler that runs its statements between BEGIN and COMMIT *)
(* is one atomic step of the store (READ COMMITTED hides its intermediate  *)
(* states from the other connections), and a handler whose statements are  *)
(* split by an await outside any transaction is split into one action per  *)
(* statement in the interleaved specification.                             *)
(*                                                                         *)
(* Dates are day numbers: day 1 is Monday 2024-01-01 (local time), so that *)
(* Date.getDay() of day n is n % 7.  Money is an integer number of cents.  *)
(***************************************************************************)
EXTENDS Integers, Sequences, FiniteSets, TLC

VARIABLES
    months,     \* table economia.month: set of rows
    weeks,      \* table economia.week: set of rows
    ledger,     \* table economia.transaction: set of rows
    entries,    \* table economia.piggy_bank_entry: set of rows
    nextId,     \* the next identifier gen_random_uuid() hands out, per table
    today,      \* the server's clock, as a day number (CURRENT_DATE, new Date())
    res,        \* the last HTTP response sent (status, error text, body summary)
    tx,         \* the transaction the last request had begun on its client, as it
                \* was when the client went back to the pool
    inflight,   \* requests suspended at an await, in the interleaved specifications
    arg,        \* the input of a pure helper, in the helper specifications
    out         \* the value the helper returned for arg

vars == <<months, weeks, ledger, entries, nextId, today, res, tx, inflight, arg, out>>

dbVars == <<months, weeks, ledger, entries, nextId>>

\* A nullable value is <<>> (null) or <<v>>.
NULL == <<>>

Some(v) == <<v>>

Val(x) == x[1]

\* A field the request body does not carry.  A text is a sequence of one-character
\* strings, so this is no text.
Undefined == <<"undefined">>

(***************************************************************************)
(* Bounds of the model.                                                    *)
(***************************************************************************)
\* number of calendar months, from January 2024 on, a date may lie in
NumCalendarMonths == 14

\* month rows ever inserted
MaxMonths == 2

\* ledger rows ever inserted
MaxTx == 4

\* ledger rows in SpecMonth; ledger rows and months in Spec
MaxTxMonth == 3

MaxTxAll == 3

MaxMonthsAll == 1

\* rows a ledger (and the piggy-bank entries) hold at most in SpecLedger
MaxTxLedger == 2

\* the longest amount text the money conversions are tried on, and the largest
\* number of cents
MaxMoneyLen == 4
MaxCents == 1200

\* clients with a POST /month/start under way
NumClients == 2

(***************************************************************************)
(* JavaScript Date in local time, on day numbers.                          *)
(***************************************************************************)
IsLeap(y) == (y % 4 = 0 /\ y % 100 # 0) \/ y % 400 = 0

\* m is Date.getMonth(): 0 = January
DaysInMonth(y, m) ==
    IF m = 1 THEN (IF IsLeap(y) THEN 29 ELSE 28)
    ELSE IF m \in {3, 5, 8, 10} THEN 30 ELSE 31

RECURSIVE CivilFrom(_, _, _)
CivilFrom(n, y, m) ==
    IF n <= DaysInMonth(y, m)
    THEN [y |-> y, m |-> m, d |-> n]
    ELSE CivilFrom(n - DaysInMonth(y, m), IF m = 11 THEN y + 1 ELSE y, (m + 1) % 12)

\* getFullYear(), getMonth(), getDate() of day number n
Civil(n) == CivilFrom(n, 2024, 0)

RECURSIVE DaysBefore(_, _)
\* days from 2024-01-01 to the first day of month m of year y
DaysBefore(y, m) ==
    IF y = 2024 /\ m = 0 THEN 0
    ELSE LET py == IF m = 0 THEN y - 1 ELSE y
             pm == IF m = 0 THEN 11 ELSE m - 1
         IN  DaysBefore(py, pm) + DaysInMonth(py, pm)

\* new Date(y, m, d) for d in 0..31: day 0 is the last day of the month before
NewDate(y, m, d) ==
    LET yy == y + (m \div 12)
        mm == m % 12
    IN  DaysBefore(yy, mm) + d

\* Date.getDay(): 0 = Sunday ... 6 = Saturday
GetDay(n) == n % 7

\* the last day number of the calendar the model covers
LastDay == NewDate(2024, NumCalendarMonths, 0)

Dates == 1..LastDay

toPeriodKey(d) == <<Civil(d).y, Civil(d).m + 1>>

\* a DATE column holds the local calendar day
toDateOnly(d) == d

\* startOfWeekMonday without its Sunday case: diff = 1 - day on every day
startOfWeekMonday_NoSunday(date) ==
    LET day  == GetDay(date)
        diff == 1 - day
    IN  date + diff

startOfWeekMonday(date) ==
    LET day  == GetDay(date)
        diff == (IF day = 0 THEN -6 ELSE 1) - day
    IN  date + diff

addDays(date, n) == date + n

\* const end = new Date(start.getFullYear(), start.getMonth() + 1, 0)
MonthEnd(start) == NewDate(Civil(start).y, Civil(start).m + 1, 0)

(***************************************************************************)
(* The week generation loop of POST /month/start: the rows it inserts, in  *)
(* order, as <<week_index, start_date, end_date>> records.                 *)
(***************************************************************************)
RECURSIVE WeekLoop_EightDays(_, _, _, _)
WeekLoop_EightDays(cursor, weekIndex, start, endDate) ==
    IF cursor <= endDate
    THEN LET wEnd      == addDays(cursor, 7)
             realStart == IF cursor < start THEN start ELSE cursor
             realEnd   == IF wEnd > endDate THEN endDate ELSE wEnd
         IN  <<[week_index |-> weekIndex, start_date |-> realStart, end_date |-> realEnd]>>
             \o WeekLoop_EightDays(addDays(cursor, 8), weekIndex + 1, start, endDate)
    ELSE <<>>

RECURSIVE WeekLoop(_, _, _, _)
WeekLoop(cursor, weekIndex, start, endDate) ==
    IF cursor <= endDate
    THEN LET wStart     == cursor
             wEnd       == addDays(wStart, 6)
             rangeStart == start
             realStart  == IF wStart < rangeStart THEN rangeStart ELSE wStart
             realEnd    == IF wEnd > endDate THEN endDate ELSE wEnd
         IN  <<[week_index |-> weekIndex,
                start_date |-> toDateOnly(realStart),
                end_date   |-> toDateOnly(realEnd)]>>
             \o WeekLoop(addDays(cursor, 7), weekIndex + 1, start, endDate)
    ELSE <<>>

partitionWeeks(start, end) == WeekLoop(startOfWeekMonday(start), 1, start, end)


(***************************************************************************)
(* parseMoneyToCents.  A text is a sequence of one-character strings; a    *)
(* missing field of the request body is Undefined.                         *)
(***************************************************************************)
DigitVal == ("0" :> 0) @@ ("1" :> 1) @@ ("2" :> 2) @@ ("3" :> 3) @@ ("4" :> 4) @@
            ("5" :> 5) @@ ("6" :> 6) @@ ("7" :> 7) @@ ("8" :> 8) @@ ("9" :> 9)

IsDigit(c) == c \in DOMAIN DigitVal

RECURSIVE TrimLeft(_)
TrimLeft(s) == IF s # <<>> /\ Head(s) = " " THEN TrimLeft(Tail(s)) ELSE s

RECURSIVE TrimRight(_)
TrimRight(s) ==
    IF s # <<>> /\ s[Len(s)] = " " THEN TrimRight(SubSeq(s, 1, Len(s) - 1)) ELSE s

\* String.prototype.trim
Trim(s) == TrimRight(TrimLeft(s))

\* the index of the first c in s, 0 when there is none (indexOf, 1-based)
IndexOf(s, c) ==
    IF \E i \in 1..Len(s) : s[i] = c
    THEN CHOOSE i \in 1..Len(s) : s[i] = c /\ \A j \in 1..(i - 1) : s[j] # c
    ELSE 0

ReplaceFirstComma_None(s) == s

\* s.replace(",", "."): a string pattern replaces the first occurrence only
ReplaceFirstComma(s) ==
    LET i == IndexOf(s, ",")
    IN  IF i = 0 THEN s ELSE [s EXCEPT ![i] = "."]

\* s.replace(/[^\d.]/g, "")
KeepDigitsAndDots(s) == SelectSeq(s, LAMBDA c : IsDigit(c) \/ c = ".")

\* s.slice(0, firstDot + 1) + s.slice(firstDot + 1).replace(/\./g, "")
KeepFirstDot(s) ==
    LET firstDot == IndexOf(s, ".")
    IN  IF firstDot = 0 THEN s
        ELSE SubSeq(s, 1, firstDot)
             \o SelectSeq(SubSeq(s, firstDot + 1, Len(s)), LAMBDA c : c # ".")

RECURSIVE DigitsToNat(_)
DigitsToNat(s) ==
    IF s = <<>> THEN 0 ELSE DigitsToNat(SubSeq(s, 1, Len(s) - 1)) * 10 + DigitVal[s[Len(s)]]

\* Math.round(Number(s) * 100) for s made of digits and at most one dot; NULL when
\* Number(s) is NaN (a dot with no digit).  Number("") is 0.  A third decimal of
\* 5 or more rounds up; the double product can fall just below the half when the
\* third decimal is a last 5 (1.005 gives 100), which no text of MoneyTexts or
\* MoneyInputs does.
RoundCents(s) ==
    LET dot  == IndexOf(s, ".")
        int  == IF dot = 0 THEN s ELSE SubSeq(s, 1, dot - 1)
        frac == IF dot = 0 THEN <<>> ELSE SubSeq(s, dot + 1, Len(s))
        d(i) == IF i <= Len(frac) THEN DigitVal[frac[i]] ELSE 0
    IN  IF dot # 0 /\ int = <<>> /\ frac = <<>> THEN NULL
        ELSE Some(DigitsToNat(int) * 100 + d(1) * 10 + d(2) + (IF d(3) >= 5 THEN 1 ELSE 0))

parseMoneyToCents_Signed(input) ==
    IF input = Undefined THEN NULL
    ELSE LET s == Trim(input)
             n == RoundCents(KeepFirstDot(KeepDigitsAndDots(ReplaceFirstComma(s))))
         IN  IF s = <<>> THEN NULL
             ELSE IF Head(s) = "-" /\ n # NULL THEN Some(0 - Val(n))
             ELSE n

parseMoneyToCents(input) ==
    IF input = Undefined THEN NULL
    ELSE LET s == Trim(input)
         IN  IF s = <<>> THEN NULL
             ELSE RoundCents(KeepFirstDot(KeepDigitsAndDots(ReplaceFirstComma(s))))

\* the amounts requests are sent with: 0 to 5, 10, 11, a lone dot, none
MoneyTexts ==
    {Undefined, <<"0">>, <<"1">>, <<"2">>, <<"3">>, <<"4">>, <<"5">>,
     <<"1", "0">>, <<"1", "1">>, <<".">>}

\* parseMoneyToCents over MoneyTexts, worked out once
ParsedMoney == [t \in MoneyTexts |-> parseMoneyToCents(t)]

\* the handlers' parseMoneyToCents(x), for x in MoneyTexts
Cents(input) == ParsedMoney[input]

\* a Number with at most two decimals, int + frac / 100
Eur(int, frac) == [int |-> int, frac |-> frac]

centsToEur_WholeEuros(cents) ==
    IF cents = NULL THEN NULL ELSE Some(Eur(Val(cents) \div 100, 0))

\* Math.round(n) / 100, null for null
centsToEur(cents) ==
    IF cents = NULL THEN NULL ELSE Some(Eur(Val(cents) \div 100, Val(cents) % 100))

Digit(n) == CHOOSE c \in DOMAIN DigitVal : DigitVal[c] = n

RECURSIVE NatToDigits(_)
NatToDigits(n) == IF n < 10 THEN <<Digit(n)>> ELSE NatToDigits(n \div 10) \o <<Digit(n % 10)>>

\* String(input) for a Number with at most two decimals: no trailing zero, no
\* dot for a whole number
NumberToString(n) ==
    NatToDigits(n.int)
    \o (IF n.frac = 0 THEN <<>>
        ELSE IF n.frac % 10 = 0 THEN <<".", Digit(n.frac \div 10)>>
        ELSE <<".", Digit(n.frac \div 10), Digit(n.frac % 10)>>)

\* x ?? 0
OrZero(x) == IF x = NULL THEN 0 ELSE Val(x)


(***************************************************************************)
(* The store.                                                              *)
(***************************************************************************)
DB == [months |-> months, weeks |-> weeks, ledger |-> ledger, entries |-> entries]

\* COMMIT makes the work of the transaction the content of the store; ROLLBACK
\* leaves the store as it was at BEGIN.
\* a ROLLBACK that undoes nothing
Rollback_Keeps(db, work) == work

Commit(db, work) == work

Rollback(db, work) == db

\* how a transaction that ran to its end was ended: COMMIT, or ROLLBACK in the catch
Ended(ok) == IF ok THEN "committed" ELSE "rolled back"

\* the seeded categories (their name stands for their id)
Categories == {"Alquiler", "Estudios", "Cafe", "Tabaco", "Farmacia", "Compra", "Bares",
               "Ocio", "Comida a domicilio", "Bebe", "Padel", "Gasolina", "Extra"}

\* the two seeded piggy banks (their type stands for their id)
PiggyBanks == {"TWO_EURO", "NORMAL"}

\* What a handler sent: the route, the HTTP status, the error text ("" on success)
\* and the body on success.
Response(op, status, error, body) ==
    [op |-> op, status |-> status, error |-> error, body |-> body]

TxRow(id, dateTime, amount, direction, type, monthId, weekId, categoryId, attribution, paymentMethod, concept, note) ==
    [id |-> id, date_time |-> dateTime, amount |-> amount, direction |-> direction,
     type |-> type, month_id |-> monthId, week_id |-> weekId, category_id |-> categoryId,
     attribution |-> attribution, payment_method |-> paymentMethod,
     concept |-> concept, note |-> note]

EntryRow(id, piggyBankId, amount, note, monthId) ==
    [id |-> id, piggy_bank_id |-> piggyBankId, amount |-> amount, note |-> note,
     month_id |-> monthId]

\* the row of table `rows` with this id, as a set (empty: no such row)
ById(rows, id) == {r \in rows : r.id = id}

Max(a, b) == IF a >= b THEN a ELSE b

\* the UPDATE without closed_at=now()
CloseRow_NoTimestamp(row, now) == [row EXCEPT !.status = "CLOSED"]

\* UPDATE ... SET status='CLOSED', closed_at=now() of a month or of a week
CloseRow(row, now) == [row EXCEPT !.status = "CLOSED", !.closed_at = Some(now)]

OpenMonths(ms) == {m \in ms : m.status = "OPEN"}

RECURSIVE SumAmounts(_)
\* SUM(amount) over a set of rows, COALESCEd to 0
SumAmounts(rows) ==
    IF rows = {} THEN 0
    ELSE LET r == CHOOSE x \in rows : TRUE
         IN  r.amount + SumAmounts(rows \ {r})

(***************************************************************************)
(* POST /month/start                                                       *)
(***************************************************************************)
MonthRow(id, periodKey, start, end, incomeCents, weeklyCents, savingCents) ==
    [id |-> id, period_key |-> periodKey, start_date |-> start, end_date |-> end,
     income_amount |-> incomeCents, weekly_budget_amount |-> weeklyCents,
     saving_goal_amount |-> savingCents, status |-> "OPEN", closed_at |-> NULL]

WeekRow(id, monthId, r, weeklyCents) ==
    [id |-> id, month_id |-> monthId, week_index |-> r.week_index,
     start_date |-> r.start_date, end_date |-> r.end_date,
     cash_withdraw_amount |-> weeklyCents, cash_returned_to_bank_amount |-> 0,
     status |-> "OPEN", closed_at |-> NULL]

\* the 400 a request body is answered with, "" when it is valid
StartMonthValidation(incomeCents, savingCents, weeklyCents) ==
    IF incomeCents = NULL \/ savingCents = NULL \/ weeklyCents = NULL
    THEN "incomeAmount, savingGoalAmount y weeklyBudgetAmount son obligatorios (validos)"
    ELSE IF Val(incomeCents) <= 0 \/ Val(savingCents) < 0 \/ Val(weeklyCents) < 0
    THEN "incomeAmount debe ser > 0. savingGoalAmount y weeklyBudgetAmount deben ser >= 0."
    ELSE ""

\* the check reading the CLOSED months instead of the OPEN ones
StartMonthOpenCheck_Closed(db) == {m \in db.months : m.status = "CLOSED"} # {}

\* the check left out
StartMonthOpenCheck_Never(db) == FALSE

\* SELECT id FROM economia.month WHERE status='OPEN' LIMIT 1
StartMonthOpenCheck(db) == OpenMonths(db.months) # {}

\* The statements between BEGIN and COMMIT: the month insert (statement 1) and
\* one week insert per interval (statements 2, 3, ...).  Statement failAt throws
\* (0: none does); the month insert also throws on a period_key already taken.
StartMonthTx(db, ids, start, incomeCents, weeklyCents, savingCents, failAt) ==
    LET periodKey  == toPeriodKey(start)
        end        == MonthEnd(start)
        month      == MonthRow(ids.month, periodKey, toDateOnly(start), toDateOnly(end),
                               incomeCents, weeklyCents, savingCents)
        rows       == partitionWeeks(start, end)
        monthFails == failAt = 1 \/ \E m \in db.months : m.period_key = periodKey
        weekFails  == failAt \in 2..(1 + Len(rows))
        done       == IF monthFails THEN {}
                      ELSE {i \in 1..Len(rows) : failAt = 0 \/ i + 1 < failAt}
        work       == [db EXCEPT
                         !.months = IF monthFails THEN @ ELSE @ \cup {month},
                         !.weeks  = @ \cup {WeekRow(ids.week + i - 1, month.id, rows[i],
                                                    weeklyCents) : i \in done}]
        failed     == monthFails \/ weekFails
    IN  [ok    |-> ~failed,
         db    |-> IF failed THEN Rollback(db, work) ELSE Commit(db, work),
         month |-> month,
         nWeeks |-> Len(rows)]


(***************************************************************************)
(* POST /month/close                                                       *)
(***************************************************************************)
\* SUM(amount) WHERE month_id=$1 AND direction='OUT' AND type IN ('EXPENSE')
MonthExpenses(db, monthId) ==
    SumAmounts({t \in db.ledger : t.month_id = monthId /\ t.direction = "OUT"
                                  /\ t.type = "EXPENSE"})

\* SUM(amount) WHERE month_id=$1 AND direction='IN' AND type='EXTRA_INCOME'
MonthExtraIncome(db, monthId) ==
    SumAmounts({t \in db.ledger : t.month_id = monthId /\ t.direction = "IN"
                                  /\ t.type = "EXTRA_INCOME"})

\* the status check left out
MonthIsOpen_Always(month) == TRUE

\* the totals with the saving goal taken off the remainder
CloseMonthTotals_MinusGoal(db, month) ==
    LET totalIncome == month.income_amount + MonthExtraIncome(db, month.id)
        totalExpenses == MonthExpenses(db, month.id)
        remainder   == totalIncome - totalExpenses - month.saving_goal_amount
    IN  [totalIncome |-> totalIncome, totalExpenses |-> totalExpenses,
         remainder |-> remainder, consolidated |-> Max(0, remainder)]

\* month.status !== "OPEN" answers 400
MonthIsOpen(month) == month.status = "OPEN"

CloseMonthTotals(db, month) ==
    LET totalIncome == month.income_amount + MonthExtraIncome(db, month.id)
        totalExpenses == MonthExpenses(db, month.id)
        remainder   == totalIncome - totalExpenses
    IN  [totalIncome |-> totalIncome, totalExpenses |-> totalExpenses,
         remainder |-> remainder, consolidated |-> Max(0, remainder)]

\* The statements after the status check: the consolidation insert (statement 1,
\* only when there is something to consolidate) and the status update (2).
CloseMonthTx_InsertAlways(db, ids, month, now, failAt) ==
    LET totals == CloseMonthTotals(db, month)
        toConsolidate == totals.consolidated
        entry  == TxRow(ids.tx, now, toConsolidate, "IN", "CONSOLIDATE_TO_SAFETY",
                        month.id, NULL, NULL, "HOUSE", "TRANSFER", Some("Cierre de mes"),
                        Some("Ahorro objetivo + sobrante"))
        closed == CloseRow(month, now)
        failed == failAt \in {1, 2}
        work   == [db EXCEPT !.ledger = @ \cup {entry},
                             !.months = (@ \ {month}) \cup {closed}]
    IN  [ok |-> ~failed,
         db |-> IF failed THEN Rollback(db, work) ELSE Commit(db, work),
         month |-> closed, totals |-> totals,
         inserted |-> 1]

CloseMonthTx(db, ids, month, now, failAt) ==
    LET totals == CloseMonthTotals(db, month)
        toConsolidate == totals.consolidated
        entry  == TxRow(ids.tx, now, toConsolidate, "IN", "CONSOLIDATE_TO_SAFETY",
                        month.id, NULL, NULL, "HOUSE", "TRANSFER", Some("Cierre de mes"),
                        Some("Ahorro objetivo + sobrante"))
        closed == CloseRow(month, now)
        insertFails == toConsolidate > 0 /\ failAt = 1
        updateFails == failAt = 2
        work1  == IF toConsolidate > 0 /\ ~insertFails
                  THEN [db EXCEPT !.ledger = @ \cup {entry}] ELSE db
        work   == IF insertFails \/ updateFails THEN work1
                  ELSE [work1 EXCEPT !.months = (@ \ {month}) \cup {closed}]
        failed == insertFails \/ updateFails
    IN  [ok |-> ~failed,
         db |-> IF failed THEN Rollback(db, work) ELSE Commit(db, work),
         month |-> closed, totals |-> totals,
         inserted |-> IF toConsolidate > 0 THEN 1 ELSE 0]

(***************************************************************************)
(* PUT /month/:id                                                          *)
(***************************************************************************)
\* Number.isFinite(x) && x >= 0 fails: x is null (the text did not parse) or negative
InvalidAmount(x) == x = NULL \/ Val(x) < 0

UpdateMonthTx_EveryWeek(db, month, newIncome, newSaving, newWeekly, weeklyGiven) ==
    LET updated == [month EXCEPT !.income_amount = newIncome,
                                 !.saving_goal_amount = newSaving,
                                 !.weekly_budget_amount = newWeekly]
        work1   == [db EXCEPT !.months = (@ \ {month}) \cup {updated}]
        work    == IF weeklyGiven /\ newWeekly # month.weekly_budget_amount
                   THEN [work1 EXCEPT !.weeks =
                           {IF w.month_id = month.id
                            THEN [w EXCEPT !.cash_withdraw_amount = newWeekly]
                            ELSE w : w \in @}]
                   ELSE work1
    IN  [db |-> Commit(db, work), month |-> updated]

UpdateMonthTx(db, month, newIncome, newSaving, newWeekly, weeklyGiven) ==
    LET updated == [month EXCEPT !.income_amount = newIncome,
                                 !.saving_goal_amount = newSaving,
                                 !.weekly_budget_amount = newWeekly]
        work1   == [db EXCEPT !.months = (@ \ {month}) \cup {updated}]
        work    == IF weeklyGiven /\ newWeekly # month.weekly_budget_amount
                   THEN [work1 EXCEPT !.weeks =
                           {IF w.month_id = month.id /\ w.status = "OPEN"
                            THEN [w EXCEPT !.cash_withdraw_amount = newWeekly]
                            ELSE w : w \in @}]
                   ELSE work1
    IN  [db |-> Commit(db, work), month |-> updated]

(***************************************************************************)
(* DELETE /month/:id, with the schema's ON DELETE rules                    *)
(***************************************************************************)
DeleteMonthTx_EntriesKeepMonth(db, month) ==
    LET work == [months  |-> db.months \ {month},
                 weeks   |-> {w \in db.weeks : w.month_id # month.id},
                 ledger  |-> {t \in db.ledger : t.month_id # month.id},
                 entries |-> db.entries]
    IN  [db |-> Commit(db, work)]

DeleteMonthTx(db, month) ==
    LET goneWeeks == {w.id : w \in {x \in db.weeks : x.month_id = month.id}}
        work == [months  |-> db.months \ {month},
                 \* week.month_id ON DELETE CASCADE
                 weeks   |-> {w \in db.weeks : w.month_id # month.id},
                 \* transaction.month_id ON DELETE CASCADE, week_id ON DELETE SET NULL
                 ledger  |-> {IF t.week_id # NULL /\ Val(t.week_id) \in goneWeeks
                              THEN [t EXCEPT !.week_id = NULL] ELSE t :
                              t \in {x \in db.ledger : x.month_id # month.id}},
                 \* piggy_bank_entry.month_id ON DELETE SET NULL
                 entries |-> {IF e.month_id = Some(month.id)
                              THEN [e EXCEPT !.month_id = NULL] ELSE e : e \in db.entries}]
    IN  [db |-> Commit(db, work)]

(***************************************************************************)
(* Pocket cash                                                             *)
(***************************************************************************)
\* SUM(CASE WHEN <the row is of this type> THEN amount ELSE 0 END) WHERE month_id=$1
SumOfType(db, monthId, type) ==
    SumAmounts({t \in db.ledger : t.month_id = monthId /\ t.type = type})

\* the balance with the CASH_RETURN rows, whose direction is IN, counted as cash in
getCashBalanceForMonth_ReturnsIn(db, monthId) ==
    LET withdraw_in == SumOfType(db, monthId, "CASH_WITHDRAWAL")
        return_out  == SumOfType(db, monthId, "CASH_RETURN")
        cash_expenses_out ==
            SumAmounts({t \in db.ledger : t.month_id = monthId /\ t.type = "EXPENSE"
                                          /\ t.payment_method = "CASH"})
        piggy_out ==
            SumAmounts({t \in db.ledger : t.month_id = monthId
                                          /\ t.type = "PIGGYBANK_DEPOSIT"
                                          /\ t.payment_method = "CASH"})
        cashIn  == withdraw_in + return_out
        cashOut == cash_expenses_out + piggy_out
    IN  cashIn - cashOut

getCashBalanceForMonth(db, monthId) ==
    LET withdraw_in == SumOfType(db, monthId, "CASH_WITHDRAWAL")
        return_out  == SumOfType(db, monthId, "CASH_RETURN")
        cash_expenses_out ==
            SumAmounts({t \in db.ledger : t.month_id = monthId /\ t.type = "EXPENSE"
                                          /\ t.payment_method = "CASH"})
        piggy_out ==
            SumAmounts({t \in db.ledger : t.month_id = monthId
                                          /\ t.type = "PIGGYBANK_DEPOSIT"
                                          /\ t.payment_method = "CASH"})
        cashIn  == withdraw_in
        cashOut == cash_expenses_out + return_out + piggy_out
    IN  cashIn - cashOut

\* bankBalance of GET /summary/current
getBankBalanceForMonth(db, month) ==
    LET extra_in == SumOfType(db, month.id, "EXTRA_INCOME")
        cash_return_in == SumOfType(db, month.id, "CASH_RETURN")
        bank_expenses_out ==
            SumAmounts({t \in db.ledger : t.month_id = month.id /\ t.type = "EXPENSE"
                                          /\ t.payment_method \in {"CARD", "TRANSFER"}})
        cash_withdraw_out == SumOfType(db, month.id, "CASH_WITHDRAWAL")
        bankStart == month.income_amount + extra_in
        bankOut   == bank_expenses_out + cash_withdraw_out
        bankIn    == cash_return_in
    IN  bankStart + bankIn - bankOut

\* SELECT 1 FROM economia.transaction WHERE week_id = $1 AND type = 'CASH_WITHDRAWAL'
CashWithdrawalExists(db, week) ==
    \E t \in db.ledger : t.week_id = Some(week.id) /\ t.type = "CASH_WITHDRAWAL"

\* INSERT ... VALUES ($1, $2, 'OUT', 'CASH_WITHDRAWAL', $3, $4, 'HOUSE', 'TRANSFER', $5, NULL)
CashWithdrawalRow(ids, week) ==
    TxRow(ids.tx, week.start_date, week.cash_withdraw_amount, "OUT", "CASH_WITHDRAWAL",
          week.month_id, Some(week.id), NULL, "HOUSE", "TRANSFER",
          Some("Retirada efectivo semana"), NULL)

\* the insert without the existence check
ensureCashWithdrawalForWeek_NoCheck(db, ids, week, failAt) ==
    IF week.cash_withdraw_amount <= 0 THEN [ok |-> TRUE, db |-> db, inserted |-> 0]
    ELSE IF failAt = 1 THEN [ok |-> FALSE, db |-> db, inserted |-> 0]
    ELSE [ok |-> TRUE,
          db |-> [db EXCEPT !.ledger = @ \cup {CashWithdrawalRow(ids, week)}],
          inserted |-> 1]

\* The existence check and the insert; statement 1 is the insert.
ensureCashWithdrawalForWeek(db, ids, week, failAt) ==
    IF week.cash_withdraw_amount <= 0 THEN [ok |-> TRUE, db |-> db, inserted |-> 0]
    ELSE IF CashWithdrawalExists(db, week)
    THEN [ok |-> TRUE, db |-> db, inserted |-> 0]
    ELSE IF failAt = 1 THEN [ok |-> FALSE, db |-> db, inserted |-> 0]
    ELSE [ok |-> TRUE,
          db |-> [db EXCEPT !.ledger = @ \cup {CashWithdrawalRow(ids, week)}],
          inserted |-> 1]

(***************************************************************************)
(* POST /weeks/:id/close                                                   *)
(***************************************************************************)
\* String(x).trim() for the texts a note or a concept is drawn from
StrTrim(x) == IF x \in {"", " ", "  "} THEN "" ELSE x

\* note && String(note).trim() ? String(note).trim() : "Cierre de semana"
FinalNote(note) == IF note # "" /\ StrTrim(note) # "" THEN StrTrim(note) ELSE "Cierre de semana"

If1(cond, x) == IF cond THEN {x} ELSE {}

B2N(cond) == IF cond THEN 1 ELSE 0

\* INSERT ... VALUES (now(), $1, 'OUT', 'PIGGYBANK_DEPOSIT', $2, $3, 'HOUSE', 'CASH', ..)
PiggyDepositRow(id, now, amount, week, concept, note) ==
    TxRow(id, now, amount, "OUT", "PIGGYBANK_DEPOSIT", week.month_id, Some(week.id), NULL,
          "HOUSE", "CASH", Some(concept), Some(note))

\* the CASH_RETURN row without its week
CashReturnRow_NoWeek(id, now, amount, week, concept, note) ==
    TxRow(id, now, amount, "IN", "CASH_RETURN", week.month_id, NULL, NULL,
          "HOUSE", "CASH", Some(concept), note)

\* INSERT ... VALUES (now(), $1, 'IN', 'CASH_RETURN', $2, $3, 'HOUSE', 'CASH', ..)
CashReturnRow(id, now, amount, week, concept, note) ==
    TxRow(id, now, amount, "IN", "CASH_RETURN", week.month_id, Some(week.id), NULL,
          "HOUSE", "CASH", Some(concept), note)

\* the check that lets every week through
WeekIsOpen_Always(week) == TRUE

\* week.status !== "OPEN", negated
WeekIsOpen(week) == week.status = "OPEN"

\* The statements after the balance check, numbered 1..7: piggy entry and ledger
\* row of the two-euro jar (1, 2), of the normal jar (3, 4), the accumulator
\* update and the CASH_RETURN row (5, 6), the status update (7).  Statement
\* failAt throws when it is reached (0: none does); the ones before it have run.
CloseWeekTx(db, ids, week, piggyTwoCents, piggyNormalCents, returnCents, finalNote, now, failAt) ==
    LET two     == piggyTwoCents > 0
        normal  == piggyNormalCents > 0
        back    == returnCents > 0
        failed  == \/ failAt \in {1, 2} /\ two
                   \/ failAt \in {3, 4} /\ normal
                   \/ failAt \in {5, 6} /\ back
                   \/ failAt = 7
        runs(k) == ~failed \/ k < failAt
        e1      == EntryRow(ids.entry, "TWO_EURO", piggyTwoCents, Some(finalNote),
                            Some(week.month_id))
        t1      == PiggyDepositRow(ids.tx, now, piggyTwoCents, week, "Aporte hucha 2",
                                   finalNote)
        e2      == EntryRow(ids.entry + B2N(two), "NORMAL", piggyNormalCents,
                            Some(finalNote), Some(week.month_id))
        t2      == PiggyDepositRow(ids.tx + B2N(two), now, piggyNormalCents, week,
                                   "Aporte hucha normal", finalNote)
        t3      == CashReturnRow(ids.tx + B2N(two) + B2N(normal), now, returnCents, week,
                                 "Cierre semana: vuelve al banco", Some(finalNote))
        newEntries == If1(two /\ runs(1), e1) \cup If1(normal /\ runs(3), e2)
        newTxs  == If1(two /\ runs(2), t1) \cup If1(normal /\ runs(4), t2)
                   \cup If1(back /\ runs(6), t3)
        week5   == IF back /\ runs(5)
                   THEN [week EXCEPT !.cash_returned_to_bank_amount = @ + returnCents]
                   ELSE week
        week7   == IF runs(7) THEN CloseRow(week5, now) ELSE week5
        work    == [db EXCEPT !.entries = @ \cup newEntries,
                              !.ledger  = @ \cup newTxs,
                              !.weeks   = (@ \ {week}) \cup {week7}]
    IN  [ok |-> ~failed,
         db |-> IF failed THEN Rollback(db, work) ELSE Commit(db, work),
         week |-> week7,
         nTx |-> B2N(two) + B2N(normal) + B2N(back),
         nEntries |-> B2N(two) + B2N(normal)]

(***************************************************************************)
(* POST /weeks/:id/cash-return                                             *)
(***************************************************************************)
CashReturnTx_Overwrites(db, ids, week, amountCents, now) ==
    LET up   == [week EXCEPT !.cash_returned_to_bank_amount = amountCents]
        work == [db EXCEPT !.weeks = (@ \ {week}) \cup {up},
                           !.ledger = @ \cup
                             {CashReturnRow(ids.tx, now, amountCents, week,
                                            "Devolver billetes", NULL)}]
    IN  [db |-> Commit(db, work), week |-> up]

CashReturnTx(db, ids, week, amountCents, now) ==
    LET up   == [week EXCEPT !.cash_returned_to_bank_amount = @ + amountCents]
        work == [db EXCEPT !.weeks = (@ \ {week}) \cup {up},
                           !.ledger = @ \cup
                             {CashReturnRow(ids.tx, now, amountCents, week,
                                            "Devolver billetes", NULL)}]
    IN  [db |-> Commit(db, work), week |-> up]

(***************************************************************************)
(* Ledger rows written one statement at a time (pool.query)                *)
(***************************************************************************)
TxTypes == {"EXPENSE", "EXTRA_INCOME", "CASH_WITHDRAWAL", "CASH_RETURN",
            "CONSOLIDATE_TO_SAFETY", "EMERGENCY_FROM_SAFETY", "PIGGYBANK_DEPOSIT"}

Attributions == {"MINE", "PARTNER", "HOUSE"}

PaymentMethods == {"CARD", "CASH", "TRANSFER"}

\* x || null for a text
OrNull(x) == IF x = "" THEN NULL ELSE Some(x)

\* concept && String(concept).trim() ? String(concept).trim() : null
TrimOrNull(x) == IF x # "" /\ StrTrim(x) # "" THEN Some(StrTrim(x)) ELSE NULL

\* the constraints of table economia.transaction a row may break
TxConstraintViolated(db, t) ==
    \/ t.amount <= 0
    \/ t.direction \notin {"OUT", "IN"}
    \/ t.type \notin TxTypes
    \/ t.attribution \notin Attributions
    \/ t.payment_method \notin PaymentMethods
    \/ ById(db.months, t.month_id) = {}
    \/ t.week_id # NULL /\ ById(db.weeks, Val(t.week_id)) = {}
    \/ t.category_id # NULL /\ Val(t.category_id) \notin Categories

\* the 400 of POST /transactions, "" when the body is valid
CreateTransactionValidation(amountCents, type, month_id, category_id, attribution, payment_method) ==
    IF amountCents = NULL \/ Val(amountCents) <= 0 \/ month_id = NULL \/ attribution = ""
       \/ payment_method = ""
    THEN "amount, month_id, attribution y payment_method son obligatorios (amount valido)"
    ELSE IF (IF type = "" THEN "EXPENSE" ELSE type) = "EXPENSE" /\ category_id = ""
    THEN "category_id es obligatorio cuando type=EXPENSE"
    ELSE ""

CreateTransactionRow(id, now, date_time, amountCents, type, direction, month_id, week_id, category_id, attribution, payment_method, concept, note) ==
    LET finalType == IF type = "" THEN "EXPENSE" ELSE type
        finalDirection == IF direction # "" THEN direction
                          ELSE IF finalType = "EXTRA_INCOME" THEN "IN" ELSE "OUT"
    IN  TxRow(id, IF date_time = NULL THEN now ELSE Val(date_time), amountCents,
              finalDirection, finalType, month_id, week_id, OrNull(category_id),
              attribution, payment_method, TrimOrNull(concept), OrNull(note))

\* UPDATE economia.transaction SET ... WHERE id = $8
UpdateTransactionRow_DropsWeek(t, date_time, amountCents, category_id, attribution, payment_method, concept, note) ==
    [t EXCEPT !.date_time = IF date_time = NULL THEN @ ELSE Val(date_time),
              !.amount = amountCents,
              !.week_id = NULL,
              !.category_id = OrNull(category_id),
              !.attribution = attribution,
              !.payment_method = payment_method,
              !.concept = TrimOrNull(concept),
              !.note = OrNull(note)]

UpdateTransactionRow(t, date_time, amountCents, category_id, attribution, payment_method, concept, note) ==
    [t EXCEPT !.date_time = IF date_time = NULL THEN @ ELSE Val(date_time),
              !.amount = amountCents,
              !.category_id = OrNull(category_id),
              !.attribution = attribution,
              !.payment_method = payment_method,
              !.concept = TrimOrNull(concept),
              !.note = OrNull(note)]

(***************************************************************************)
(* Inputs the requests are drawn from.                                     *)
(***************************************************************************)
\* the days the clock shows: Thu 2024-01-25, Mon 2024-01-29, Mon 2024-02-26
ClockDays == {25, 29, 57}





(***************************************************************************)
(* Initial state: the schema as initDb leaves it.                          *)
(***************************************************************************)
NoResponse == Response("none", 0, "", NULL)

Init ==
    /\ months = {}
    /\ weeks = {}
    /\ ledger = {}
    /\ entries = {}
    /\ nextId = [month |-> 1, week |-> 1, tx |-> 1, entry |-> 1]
    /\ today = 25
    /\ res = NoResponse
    /\ tx = "none"
    /\ inflight = {}
    /\ arg = NULL
    /\ out = NULL

\* the store becomes db
Store(db) ==
    /\ months' = db.months
    /\ weeks' = db.weeks
    /\ ledger' = db.ledger
    /\ entries' = db.entries

\* the clock moves on
Tick ==
    /\ \E d \in ClockDays : d > today /\ today' = d
    /\ UNCHANGED <<dbVars, res, tx, inflight, arg, out>>

StartMonth(incomeAmount, savingGoalAmount, weeklyBudgetAmount, startDate, failAt) ==
    LET incomeCents == Cents(incomeAmount)
        savingCents == Cents(savingGoalAmount)
        weeklyCents == Cents(weeklyBudgetAmount)
        error       == StartMonthValidation(incomeCents, savingCents, weeklyCents)
    IN  /\ UNCHANGED <<today, inflight, arg, out>>
        /\ IF error # ""
           THEN /\ res' = Response("startMonth", 400, error, NULL)
                /\ tx' = "none"
                /\ UNCHANGED dbVars
           ELSE IF StartMonthOpenCheck(DB)
           THEN /\ res' = Response("startMonth", 400, "Ya existe un mes OPEN", NULL)
                /\ tx' = "none"
                /\ UNCHANGED dbVars
           ELSE LET start == IF startDate = NULL THEN today ELSE Val(startDate)
                    w     == StartMonthTx(DB, nextId, start, Val(incomeCents),
                                          Val(weeklyCents), Val(savingCents), failAt)
                IN  /\ nextId.month <= MaxMonths
                    /\ Store(w.db)
                    /\ tx' = Ended(w.ok)
                    /\ nextId' = IF w.ok
                                 THEN [nextId EXCEPT !.month = @ + 1, !.week = @ + w.nWeeks]
                                 ELSE nextId
                    /\ res' = IF w.ok
                              THEN Response("startMonth", 200, "", w.month)
                              ELSE Response("startMonth", 500, "Error creando mes", NULL)

CloseMonth(monthId, failAt) ==
    /\ UNCHANGED <<today, inflight, arg, out>>
    /\ IF monthId = NULL
       THEN /\ res' = Response("closeMonth", 400, "monthId es obligatorio", NULL)
            /\ tx' = "none"
            /\ UNCHANGED dbVars
       ELSE IF ById(months, Val(monthId)) = {}
       \* the return of line 1851 follows BEGIN with no ROLLBACK
       THEN /\ res' = Response("closeMonth", 404, "Mes no encontrado", NULL)
            /\ tx' = "open"
            /\ UNCHANGED dbVars
       ELSE LET month == CHOOSE m \in months : m.id = Val(monthId)
            IN  IF ~MonthIsOpen(month)
                \* the return of line 1854 follows BEGIN with no ROLLBACK
                THEN /\ res' = Response("closeMonth", 400, "El mes no esta OPEN", NULL)
                     /\ tx' = "open"
                     /\ UNCHANGED dbVars
                ELSE LET w == CloseMonthTx(DB, nextId, month, today, failAt)
                     IN  /\ nextId.tx + w.inserted <= MaxTx + 1
                         /\ Store(w.db)
                         /\ tx' = Ended(w.ok)
                         /\ nextId' = IF w.ok THEN [nextId EXCEPT !.tx = @ + w.inserted]
                                      ELSE nextId
                         /\ res' = IF w.ok
                                   THEN Response("closeMonth", 200, "",
                                                 [month |-> w.month, totals |-> w.totals])
                                   ELSE Response("closeMonth", 500, "Error cerrando mes", NULL)

UpdateMonth(id, incomeAmount, savingGoalAmount, weeklyBudgetAmount) ==
    /\ UNCHANGED <<today, inflight, arg, out, nextId>>
    /\ IF incomeAmount = Undefined /\ savingGoalAmount = Undefined
          /\ weeklyBudgetAmount = Undefined
       THEN /\ res' = Response("updateMonth", 400,
                   "Debes enviar incomeAmount, savingGoalAmount o weeklyBudgetAmount (al menos uno).",
                   NULL)
            /\ tx' = "none"
            /\ UNCHANGED <<months, weeks, ledger, entries>>
       ELSE IF ById(months, id) = {}
       THEN /\ res' = Response("updateMonth", 404, "Mes no encontrado", NULL)
            /\ tx' = "rolled back"
            /\ UNCHANGED <<months, weeks, ledger, entries>>
       ELSE LET month == CHOOSE m \in months : m.id = id
                newIncome == IF incomeAmount = Undefined THEN Some(month.income_amount)
                             ELSE Cents(incomeAmount)
                newSaving == IF savingGoalAmount = Undefined
                             THEN Some(month.saving_goal_amount)
                             ELSE Cents(savingGoalAmount)
                newWeekly == IF weeklyBudgetAmount = Undefined
                             THEN Some(month.weekly_budget_amount)
                             ELSE Cents(weeklyBudgetAmount)
            IN  IF InvalidAmount(newIncome)
                THEN /\ res' = Response("updateMonth", 400, "incomeAmount invalido", NULL)
                     /\ tx' = "rolled back"
                     /\ UNCHANGED <<months, weeks, ledger, entries>>
                ELSE IF InvalidAmount(newSaving)
                THEN /\ res' = Response("updateMonth", 400, "savingGoalAmount invalido", NULL)
                     /\ tx' = "rolled back"
                     /\ UNCHANGED <<months, weeks, ledger, entries>>
                ELSE IF InvalidAmount(newWeekly)
                THEN /\ res' = Response("updateMonth", 400, "weeklyBudgetAmount invalido", NULL)
                     /\ tx' = "rolled back"
                     /\ UNCHANGED <<months, weeks, ledger, entries>>
                ELSE LET w == UpdateMonthTx(DB, month, Val(newIncome), Val(newSaving),
                                            Val(newWeekly), weeklyBudgetAmount # Undefined)
                     IN  /\ Store(w.db)
                         /\ tx' = "committed"
                         /\ res' = Response("updateMonth", 200, "", w.month)

DeleteMonth(id) ==
    /\ UNCHANGED <<today, inflight, arg, out, nextId>>
    /\ IF ById(months, id) = {}
       THEN /\ res' = Response("deleteMonth", 404, "Mes no encontrado", NULL)
            /\ tx' = "rolled back"
            /\ UNCHANGED <<months, weeks, ledger, entries>>
       ELSE LET month == CHOOSE m \in months : m.id = id
            IN  /\ Store(DeleteMonthTx(DB, month).db)
                /\ tx' = "committed"
                /\ res' = Response("deleteMonth", 200, "", [deletedMonthId |-> id])

\* piggyTwoCents < 0 || piggyNormalCents < 0 || returnCents < 0
NegativeAmounts(piggyTwoCents, piggyNormalCents, returnCents) ==
    piggyTwoCents < 0 \/ piggyNormalCents < 0 \/ returnCents < 0

CloseWeek(id, piggyTwoAmount, piggyNormalAmount, returnToBankAmount, note, failAt) ==
    LET piggyTwoCents    == OrZero(Cents(piggyTwoAmount))
        piggyNormalCents == OrZero(Cents(piggyNormalAmount))
        returnCents      == OrZero(Cents(returnToBankAmount))
        totalToMove      == piggyTwoCents + piggyNormalCents + returnCents
        Fail(status, error, transaction) ==
            /\ res' = Response("closeWeek", status, error, NULL)
            /\ tx' = transaction
            /\ UNCHANGED dbVars
    IN  /\ UNCHANGED <<today, inflight, arg, out>>
        /\ IF NegativeAmounts(piggyTwoCents, piggyNormalCents, returnCents)
           THEN Fail(400, "Los importes deben ser >= 0", "none")
           ELSE IF totalToMove <= 0
           THEN Fail(400, "Debes indicar al menos un importe (> 0)", "none")
           ELSE IF ById(weeks, id) = {}
           THEN Fail(404, "Semana no encontrada", "rolled back")
           ELSE LET week == CHOOSE w \in weeks : w.id = id
                    cashBalance == getCashBalanceForMonth(DB, week.month_id)
                IN  IF ~WeekIsOpen(week)
                    THEN Fail(400, "La semana no esta OPEN", "rolled back")
                    ELSE IF totalToMove > cashBalance
                    THEN Fail(400, "No hay suficiente efectivo en bolsillo", "rolled back")
                    ELSE LET w == CloseWeekTx(DB, nextId, week, piggyTwoCents,
                                              piggyNormalCents, returnCents,
                                              FinalNote(note), today, failAt)
                         IN  /\ nextId.tx + w.nTx <= MaxTx + 1
                             /\ Store(w.db)
                             /\ tx' = Ended(w.ok)
                             /\ nextId' = IF w.ok
                                          THEN [nextId EXCEPT !.tx = @ + w.nTx,
                                                              !.entry = @ + w.nEntries]
                                          ELSE nextId
                             /\ res' = IF w.ok
                                       THEN Response("closeWeek", 200, "",
                                              [week |-> w.week,
                                               moved |-> [piggyTwo |-> piggyTwoCents,
                                                          piggyNormal |-> piggyNormalCents,
                                                          returnToBank |-> returnCents,
                                                          total |-> totalToMove],
                                               cashBalanceBefore |-> cashBalance,
                                               cashBalanceAfter |-> cashBalance - totalToMove])
                                       ELSE Response("closeWeek", 500, "Error cerrando semana",
                                                     NULL)

CashReturn(id, amount) ==
    LET amountCents == Cents(amount)
    IN  /\ UNCHANGED <<today, inflight, arg, out>>
        /\ IF amountCents = NULL \/ Val(amountCents) <= 0
           THEN /\ res' = Response("cashReturn", 400, "amount es obligatorio (valido)", NULL)
                /\ tx' = "none"
                /\ UNCHANGED dbVars
           ELSE IF ById(weeks, id) = {}
           \* the return of line 2091 follows BEGIN with no ROLLBACK
           THEN /\ res' = Response("cashReturn", 404, "Semana no encontrada", NULL)
                /\ tx' = "open"
                /\ UNCHANGED dbVars
           ELSE LET week == CHOOSE w \in weeks : w.id = id
                    up   == CashReturnTx(DB, nextId, week, Val(amountCents), today)
                IN  /\ nextId.tx <= MaxTx
                    /\ Store(up.db)
                    /\ tx' = "committed"
                    /\ nextId' = [nextId EXCEPT !.tx = @ + 1]
                    /\ res' = Response("cashReturn", 200, "", up.week)

\* SELECT * FROM economia.month WHERE status='OPEN' ORDER BY created_at DESC LIMIT 1
CurrentMonth(db) ==
    {m \in OpenMonths(db.months) : \A o \in OpenMonths(db.months) : o.id <= m.id}

\* the week of the month that contains CURRENT_DATE, ORDER BY week_index ASC LIMIT 1
SummaryWeek(db, month, now) ==
    LET hit == {w \in db.weeks : w.month_id = month.id /\ w.start_date <= now
                                 /\ w.end_date >= now}
    IN  {w \in hit : \A o \in hit : w.week_index <= o.week_index}

\* the figures GET /summary/current answers with, read after the withdrawal
SummaryBody(db, month, week, now) ==
    LET totalExpenses == MonthExpenses(db, month.id)
        extraIncome   == MonthExtraIncome(db, month.id)
        totalIncome   == month.income_amount + extraIncome
        weekSpentCash ==
            IF week = {} THEN 0
            ELSE LET w == CHOOSE x \in week : TRUE
                 IN  SumAmounts({t \in db.ledger :
                        /\ t.month_id = month.id /\ t.direction = "OUT"
                        /\ t.type = "EXPENSE" /\ t.payment_method = "CASH"
                        /\ t.date_time >= w.start_date /\ t.date_time <= w.end_date})
    IN  [month |-> month.id,
         week |-> {w.id : w \in week},
         totalIncome |-> totalIncome, extraIncome |-> extraIncome,
         totalExpenses |-> totalExpenses, remainingMonth |-> totalIncome - totalExpenses,
         weekSpent |-> weekSpentCash,
         remainingWeek |-> {w.cash_withdraw_amount - weekSpentCash : w \in week},
         bank |-> getBankBalanceForMonth(db, month),
         cash |-> getCashBalanceForMonth(db, month.id)]

\* if (week) { BEGIN; ensureCashWithdrawalForWeek; COMMIT } catch { ROLLBACK }:
\* the store after it and the rows it added; a failure is logged and rolled back
SummaryEnsure(db, ids, week, failAt) ==
    IF week = {} THEN [db |-> db, inserted |-> 0, tx |-> "none"]
    ELSE LET e == ensureCashWithdrawalForWeek(db, ids, CHOOSE w \in week : TRUE, failAt)
         IN  [db |-> IF e.ok THEN Commit(db, e.db) ELSE Rollback(db, e.db),
              inserted |-> e.inserted, tx |-> Ended(e.ok)]

CurrentSummary(failAt) ==
    /\ UNCHANGED <<today, inflight, arg, out>>
    /\ IF CurrentMonth(DB) = {}
       THEN /\ res' = Response("currentSummary", 200, "", NULL)
            /\ tx' = "none"
            /\ UNCHANGED dbVars
       ELSE LET month == CHOOSE m \in CurrentMonth(DB) : TRUE
                week  == SummaryWeek(DB, month, today)
                e     == SummaryEnsure(DB, nextId, week, failAt)
            IN  /\ nextId.tx + e.inserted <= MaxTx + 1
                /\ Store(e.db)
                /\ tx' = e.tx
                /\ nextId' = [nextId EXCEPT !.tx = @ + e.inserted]
                /\ res' = Response("currentSummary", 200, "",
                                   SummaryBody(e.db, month, week, today))

CreateTransaction(r) ==
    LET amountCents == Cents(r.amount)
        error == CreateTransactionValidation(amountCents, r.type, r.month_id, r.category_id,
                                             r.attribution, r.payment_method)
    IN  /\ tx' = "none"
        /\ UNCHANGED <<today, inflight, arg, out, months, weeks, entries>>
        /\ IF error # ""
           THEN /\ res' = Response("createTransaction", 400, error, NULL)
                /\ UNCHANGED <<ledger, nextId>>
           ELSE LET row == CreateTransactionRow(nextId.tx, today, r.date_time,
                               Val(amountCents), r.type, r.direction, Val(r.month_id),
                               r.week_id, r.category_id, r.attribution, r.payment_method,
                               r.concept, r.note)
                IN  IF TxConstraintViolated(DB, row)
                    THEN /\ res' = Response("createTransaction", 500,
                                            "Error creando transaccion", NULL)
                         /\ UNCHANGED <<ledger, nextId>>
                    ELSE /\ nextId.tx <= MaxTx
                         /\ ledger' = ledger \cup {row}
                         /\ nextId' = [nextId EXCEPT !.tx = @ + 1]
                         /\ res' = Response("createTransaction", 200, "", row)

UpdateTransaction(id, r) ==
    LET amountCents == Cents(r.amount)
    IN  /\ tx' = "none"
        /\ UNCHANGED <<today, inflight, arg, out, months, weeks, entries, nextId>>
        /\ IF amountCents = NULL \/ Val(amountCents) <= 0 \/ r.attribution = ""
              \/ r.payment_method = ""
           THEN /\ res' = Response("updateTransaction", 400,
                     "amount, attribution y payment_method son obligatorios (amount valido)",
                     NULL)
                /\ UNCHANGED ledger
           ELSE IF ById(ledger, id) = {}
           THEN /\ res' = Response("updateTransaction", 404, "Movimiento no encontrado", NULL)
                /\ UNCHANGED ledger
           ELSE LET t   == CHOOSE x \in ledger : x.id = id
                    row == UpdateTransactionRow(t, r.date_time, Val(amountCents),
                               r.category_id, r.attribution, r.payment_method, r.concept,
                               r.note)
                IN  IF TxConstraintViolated(DB, row)
                    THEN /\ res' = Response("updateTransaction", 500,
                                            "Error editando movimiento", NULL)
                         /\ UNCHANGED ledger
                    ELSE /\ ledger' = (ledger \ {t}) \cup {row}
                         /\ res' = Response("updateTransaction", 200, "", row)

DeleteTransaction(id) ==
    /\ tx' = "none"
    /\ UNCHANGED <<today, inflight, arg, out, months, weeks, entries, nextId>>
    /\ IF ById(ledger, id) = {}
       THEN /\ res' = Response("deleteTransaction", 404, "Movimiento no encontrado", NULL)
            /\ UNCHANGED ledger
       ELSE /\ ledger' = {t \in ledger : t.id # id}
            /\ res' = Response("deleteTransaction", 200, "", [ok |-> TRUE])

\* POST /income/extra: one INSERT through the pool
ExtraIncomeRow(id, now, amountCents, month_id, attribution, concept, note) ==
    TxRow(id, now, amountCents, "IN", "EXTRA_INCOME", month_id, NULL, NULL,
          IF attribution = "" THEN "HOUSE" ELSE attribution, "TRANSFER",
          Some(IF concept # "" /\ StrTrim(concept) # "" THEN StrTrim(concept)
               ELSE "Ingreso extra"),
          OrNull(note))

RecordExtraIncome(r) ==
    LET amountCents == Cents(r.amount)
    IN  /\ tx' = "none"
        /\ UNCHANGED <<today, inflight, arg, out, months, weeks, entries>>
        /\ IF r.month_id = NULL \/ amountCents = NULL \/ Val(amountCents) <= 0
           THEN /\ res' = Response("recordExtraIncome", 400,
                                   "month_id y amount son obligatorios (amount valido)", NULL)
                /\ UNCHANGED <<ledger, nextId>>
           ELSE LET row == ExtraIncomeRow(nextId.tx, today, Val(amountCents),
                                          Val(r.month_id), r.attribution, r.concept, r.note)
                IN  IF TxConstraintViolated(DB, row)
                    THEN /\ res' = Response("recordExtraIncome", 500,
                                            "Error creando ingreso extra", NULL)
                         /\ UNCHANGED <<ledger, nextId>>
                    ELSE /\ nextId.tx <= MaxTx
                         /\ ledger' = ledger \cup {row}
                         /\ nextId' = [nextId EXCEPT !.tx = @ + 1]
                         /\ res' = Response("recordExtraIncome", 200, "", row)

\* GET /safety/balance: the two sums run over the whole table
getSafetyBalance_NoEmergencies(db) ==
    SumAmounts({t \in db.ledger : t.type = "CONSOLIDATE_TO_SAFETY"})

getSafetyBalance(db) ==
    SumAmounts({t \in db.ledger : t.type = "CONSOLIDATE_TO_SAFETY"})
    - SumAmounts({t \in db.ledger : t.type = "EMERGENCY_FROM_SAFETY"})

SafetyBalance ==
    /\ res' = Response("safetyBalance", 200, "", [balance |-> getSafetyBalance(DB)])
    /\ tx' = "none"
    /\ UNCHANGED <<dbVars, today, inflight, arg, out>>

\* POST /safety/emergency: one INSERT through the pool
EmergencyRow_In(id, now, amountCents, month_id, note) ==
    TxRow(id, now, amountCents, "IN", "CONSOLIDATE_TO_SAFETY", month_id, NULL, NULL,
          "HOUSE", "TRANSFER", Some("Imprevisto"), Some(note))

EmergencyRow(id, now, amountCents, month_id, note) ==
    TxRow(id, now, amountCents, "OUT", "EMERGENCY_FROM_SAFETY", month_id, NULL, NULL,
          "HOUSE", "TRANSFER", Some("Imprevisto"), Some(note))

SafetyEmergency(r) ==
    LET amountCents == Cents(r.amount)
    IN  /\ tx' = "none"
        /\ UNCHANGED <<today, inflight, arg, out, months, weeks, entries>>
        /\ IF r.month_id = NULL \/ amountCents = NULL \/ Val(amountCents) <= 0 \/ r.note = ""
           THEN /\ res' = Response("safetyEmergency", 400,
                                   "month_id, amount y note son obligatorios (validos)", NULL)
                /\ UNCHANGED <<ledger, nextId>>
           ELSE LET row == EmergencyRow(nextId.tx, today, Val(amountCents), Val(r.month_id),
                                        r.note)
                IN  IF TxConstraintViolated(DB, row)
                    THEN /\ res' = Response("safetyEmergency", 500,
                                            "Error usando fondo de seguridad", NULL)
                         /\ UNCHANGED <<ledger, nextId>>
                    ELSE /\ nextId.tx <= MaxTx
                         /\ ledger' = ledger \cup {row}
                         /\ nextId' = [nextId EXCEPT !.tx = @ + 1]
                         /\ res' = Response("safetyEmergency", 200, "", row)

\* POST /piggybanks/:id/entries: two INSERTs through the pool, each its own
\* transaction.  Statement 1 is the piggy-bank entry, statement 2 the ledger row
\* (run when month_id is given); statement failAt throws when it is reached.
DepositToPiggyBankWrites(db, ids, id, amountCents, note, month_id, now, failAt) ==
    LET entry  == EntryRow(ids.entry, id, amountCents, OrNull(note), month_id)
        row    == TxRow(ids.tx, now, amountCents, "OUT", "PIGGYBANK_DEPOSIT",
                        IF month_id = NULL THEN 0 ELSE Val(month_id), NULL, NULL,
                        "HOUSE", "CASH", Some("Aporte hucha"), OrNull(note))
        fails1 == \/ failAt = 1
                  \/ id \notin PiggyBanks
                  \/ month_id # NULL /\ ById(db.months, Val(month_id)) = {}
        db1    == [db EXCEPT !.entries = @ \cup {entry}]
        fails2 == month_id # NULL /\ (failAt = 2 \/ TxConstraintViolated(db1, row))
        db2    == IF month_id # NULL THEN [db1 EXCEPT !.ledger = @ \cup {row}] ELSE db1
    IN  IF fails1 THEN [ok |-> FALSE, db |-> db, nEntries |-> 0, nTx |-> 0, entry |-> entry]
        ELSE IF fails2
        THEN [ok |-> FALSE, db |-> db1, nEntries |-> 1, nTx |-> 0, entry |-> entry]
        ELSE [ok |-> TRUE, db |-> db2, nEntries |-> 1,
              nTx |-> B2N(month_id # NULL), entry |-> entry]

DepositToPiggyBank(id, amount, note, month_id, failAt) ==
    LET amountCents == Cents(amount)
    IN  /\ UNCHANGED <<today, inflight, arg, out>>
        /\ tx' = "none"
        /\ IF amountCents = NULL \/ Val(amountCents) <= 0
           THEN /\ res' = Response("depositToPiggyBank", 400, "amount es obligatorio (valido)",
                                   NULL)
                /\ UNCHANGED dbVars
           ELSE LET w == DepositToPiggyBankWrites(DB, nextId, id, Val(amountCents), note,
                                                  month_id, today, failAt)
                IN  /\ nextId.tx + w.nTx <= MaxTx + 1
                    /\ nextId.entry + w.nEntries <= MaxTx + 1
                    /\ Store(w.db)
                    /\ nextId' = [nextId EXCEPT !.tx = @ + w.nTx, !.entry = @ + w.nEntries]
                    /\ res' = IF w.ok
                              THEN Response("depositToPiggyBank", 200, "", w.entry)
                              ELSE Response("depositToPiggyBank", 500,
                                            "Error creando entrada en hucha", NULL)

(***************************************************************************)
(* The requests of the sequential specification.                           *)
(***************************************************************************)
\* identifiers a request may name: those of the rows, and 0, which names no row
MonthIds == {0} \cup {m.id : m \in months}

WeekIds == {0} \cup {w.id : w \in weeks}

TxIds == {0} \cup {t.id : t \in ledger}

StartMonthRequests ==
    {[incomeAmount |-> Undefined, savingGoalAmount |-> <<"0">>,
      weeklyBudgetAmount |-> <<"0">>, startDate |-> NULL],
     [incomeAmount |-> <<"0">>, savingGoalAmount |-> <<"0">>,
      weeklyBudgetAmount |-> <<"0">>, startDate |-> NULL],
     [incomeAmount |-> <<"3">>, savingGoalAmount |-> <<"0">>,
      weeklyBudgetAmount |-> <<"1", "0">>, startDate |-> NULL],
     [incomeAmount |-> <<"3">>, savingGoalAmount |-> <<"1">>,
      weeklyBudgetAmount |-> <<"0">>, startDate |-> Some(57)]}

UpdateMonthRequests ==
    {[incomeAmount |-> Undefined, savingGoalAmount |-> Undefined,
      weeklyBudgetAmount |-> Undefined],
     [incomeAmount |-> <<"5">>, savingGoalAmount |-> <<"2">>,
      weeklyBudgetAmount |-> Undefined],
     [incomeAmount |-> Undefined, savingGoalAmount |-> Undefined,
      weeklyBudgetAmount |-> <<".">>],
     [incomeAmount |-> Undefined, savingGoalAmount |-> Undefined,
      weeklyBudgetAmount |-> <<"1", "0">>]}

CloseWeekRequests ==
    {[piggyTwoAmount |-> Undefined, piggyNormalAmount |-> Undefined,
      returnToBankAmount |-> <<"0">>, note |-> ""],
     [piggyTwoAmount |-> <<"2">>, piggyNormalAmount |-> <<"3">>,
      returnToBankAmount |-> <<"5">>, note |-> ""],
     [piggyTwoAmount |-> <<"2">>, piggyNormalAmount |-> Undefined,
      returnToBankAmount |-> Undefined, note |-> "nota"],
     [piggyTwoAmount |-> Undefined, piggyNormalAmount |-> Undefined,
      returnToBankAmount |-> <<"1", "1">>, note |-> " "]}

CashReturnRequests == {Undefined, <<"5">>}

TransactionRequests ==
    {[amount |-> <<"2">>, type |-> "", direction |-> "", month_id |-> Some(1),
      week_id |-> NULL, category_id |-> "Compra", attribution |-> "MINE",
      payment_method |-> "CASH", date_time |-> NULL, concept |-> "", note |-> ""],
     [amount |-> <<"4">>, type |-> "EXPENSE", direction |-> "", month_id |-> Some(1),
      week_id |-> NULL, category_id |-> "Compra", attribution |-> "HOUSE",
      payment_method |-> "CARD", date_time |-> NULL, concept |-> "", note |-> ""],
     [amount |-> <<"1">>, type |-> "EXTRA_INCOME", direction |-> "", month_id |-> Some(1),
      week_id |-> NULL, category_id |-> "", attribution |-> "HOUSE",
      payment_method |-> "TRANSFER", date_time |-> NULL, concept |-> "", note |-> ""],
     [amount |-> <<"2">>, type |-> "", direction |-> "", month_id |-> Some(1),
      week_id |-> NULL, category_id |-> "", attribution |-> "MINE",
      payment_method |-> "CASH", date_time |-> NULL, concept |-> "", note |-> ""],
     [amount |-> <<"2">>, type |-> "", direction |-> "", month_id |-> Some(0),
      week_id |-> NULL, category_id |-> "Compra", attribution |-> "MINE",
      payment_method |-> "CASH", date_time |-> NULL, concept |-> "", note |-> ""]}

ExtraIncomeRequests ==
    {[month_id |-> Some(1), amount |-> <<"1">>, attribution |-> "", concept |-> "",
      note |-> ""],
     [month_id |-> Some(0), amount |-> <<"1">>, attribution |-> "MINE", concept |-> " ",
      note |-> "nota"],
     [month_id |-> Some(1), amount |-> <<"0">>, attribution |-> "", concept |-> "",
      note |-> ""],
     [month_id |-> NULL, amount |-> <<"1">>, attribution |-> "", concept |-> "",
      note |-> ""]}

EmergencyRequests ==
    {[month_id |-> Some(1), amount |-> <<"2">>, note |-> "nota"],
     [month_id |-> Some(1), amount |-> <<"0">>, note |-> "nota"],
     [month_id |-> Some(1), amount |-> <<"2">>, note |-> ""]}

PiggyDepositRequests ==
    {[id |-> "NORMAL", amount |-> <<"2">>, note |-> "", month_id |-> Some(1)],
     [id |-> "TWO_EURO", amount |-> <<"2">>, note |-> "nota", month_id |-> NULL],
     [id |-> "NORMAL", amount |-> <<"3">>, note |-> "", month_id |-> Some(0)],
     [id |-> "otra", amount |-> <<"2">>, note |-> "", month_id |-> Some(1)],
     [id |-> "NORMAL", amount |-> <<"0">>, note |-> "", month_id |-> Some(1)]}

\* a cash expense, a card expense, an expense with no category, a row with no amount
LedgerRequests ==
    {r \in TransactionRequests : r.month_id = Some(1) /\ r.type # "EXTRA_INCOME"}
    \cup {[amount |-> <<"0">>, type |-> "", direction |-> "", month_id |-> Some(1),
           week_id |-> NULL, category_id |-> "Compra", attribution |-> "MINE",
           payment_method |-> "CASH", date_time |-> NULL, concept |-> "", note |-> ""]}

\* the requests with a valid body
ValidStart == {r \in StartMonthRequests : r.incomeAmount = <<"3">>}

CashExpenses == {r \in TransactionRequests : r.payment_method = "CASH"}

\* a card expense above the income, an extra income, an expense with no category
MonthLedgerRequests == {r \in TransactionRequests : r.payment_method # "CASH"}
                       \cup {r \in TransactionRequests :
                                r.category_id = "" /\ r.type = ""}

(***************************************************************************)
(* Spec: every route, one request after another on the rows there are,    *)
(* over the life of one month and a ledger of MaxTxAll rows.               *)
(***************************************************************************)
RoomAll == nextId'.tx <= MaxTxAll + 1 /\ nextId'.month <= MaxMonthsAll + 1

Next ==
    \/ \E r \in ValidStart :
          /\ r.startDate = NULL
          /\ StartMonth(r.incomeAmount, r.savingGoalAmount, r.weeklyBudgetAmount,
                        r.startDate, 0) /\ RoomAll
    \/ \E m \in months : CloseMonth(Some(m.id), 0) /\ RoomAll
    \/ \E m \in months, r \in UpdateMonthRequests :
          /\ r.savingGoalAmount # Undefined \/ r.weeklyBudgetAmount = <<"1", "0">>
          /\ UpdateMonth(m.id, r.incomeAmount, r.savingGoalAmount, r.weeklyBudgetAmount)
    \/ \E m \in months : DeleteMonth(m.id)
    \/ \E w \in weeks, r \in CloseWeekRequests :
          /\ r.note # ""
          /\ CloseWeek(w.id, r.piggyTwoAmount, r.piggyNormalAmount, r.returnToBankAmount,
                    r.note, 0) /\ RoomAll
    \/ \E w \in weeks : CashReturn(w.id, <<"5">>) /\ RoomAll
    \/ CurrentSummary(0) /\ RoomAll
    \/ \E r \in CashExpenses : r.category_id # "" /\ CreateTransaction(r) /\ RoomAll
    \/ \E t \in ledger, r \in CashExpenses :
          r.category_id # "" /\ r.month_id = Some(1) /\ UpdateTransaction(t.id, r)
    \/ \E t \in ledger : DeleteTransaction(t.id)

Spec == Init /\ [][Next]_vars

(***************************************************************************)
(* SpecMonth: the life of the months and what the ledger holds at a close. *)
(***************************************************************************)
RoomMonth == nextId'.tx <= MaxTxMonth + 1

NextMonth ==
    \/ \E r \in StartMonthRequests, f \in 0..3 :
          StartMonth(r.incomeAmount, r.savingGoalAmount, r.weeklyBudgetAmount,
                     r.startDate, f)
    \/ \E id \in {NULL} \cup {Some(i) : i \in MonthIds}, f \in 0..2 :
          CloseMonth(id, f) /\ RoomMonth
    \/ \E id \in MonthIds, r \in UpdateMonthRequests :
          UpdateMonth(id, r.incomeAmount, r.savingGoalAmount, r.weeklyBudgetAmount)
    \/ \E id \in MonthIds : DeleteMonth(id)
    \/ \E r \in MonthLedgerRequests : CreateTransaction(r) /\ RoomMonth

SpecMonth == Init /\ [][NextMonth]_vars

(***************************************************************************)
(* SpecWeek: the weeks of a month, their pocket cash and their closing.    *)
(***************************************************************************)
NextWeek ==
    \/ \E r \in ValidStart, f \in {0} :
          StartMonth(r.incomeAmount, r.savingGoalAmount, r.weeklyBudgetAmount,
                     r.startDate, f)
    \/ \E id \in WeekIds, r \in CloseWeekRequests, f \in {0, 2, 7} :
          CloseWeek(id, r.piggyTwoAmount, r.piggyNormalAmount, r.returnToBankAmount,
                    r.note, f)
    \/ \E id \in WeekIds, a \in CashReturnRequests : CashReturn(id, a)
    \/ \E f \in 0..1 : CurrentSummary(f)
    \/ \E r \in CashExpenses : CreateTransaction(r)

SpecWeek == Init /\ [][NextWeek]_vars

(***************************************************************************)
(* SpecStartRace: POST /month/start requests of several clients, each one  *)
(* a pool.query reading the OPEN months followed, after awaits at which    *)
(* another request may run, by its transaction.                            *)
(***************************************************************************)
Clients == 1..NumClients

\* lines 1756-1779: the body is validated and the OPEN months are read through
\* the pool; a request that passes waits in inflight for its transaction
StartMonthBegin(client, incomeAmount, savingGoalAmount, weeklyBudgetAmount, startDate) ==
    LET incomeCents == Cents(incomeAmount)
        savingCents == Cents(savingGoalAmount)
        weeklyCents == Cents(weeklyBudgetAmount)
        error       == StartMonthValidation(incomeCents, savingCents, weeklyCents)
    IN  /\ \A q \in inflight : q.client # client
        /\ UNCHANGED <<dbVars, today, arg, out>>
        /\ IF error # ""
           THEN /\ res' = Response("startMonth", 400, error, NULL)
                /\ tx' = "none"
                /\ UNCHANGED inflight
           ELSE IF StartMonthOpenCheck(DB)
           THEN /\ res' = Response("startMonth", 400, "Ya existe un mes OPEN", NULL)
                /\ tx' = "none"
                /\ UNCHANGED inflight
           ELSE /\ inflight' = inflight \cup
                      {[client |-> client,
                        start |-> IF startDate = NULL THEN today ELSE Val(startDate),
                        incomeCents |-> Val(incomeCents),
                        weeklyCents |-> Val(weeklyCents),
                        savingCents |-> Val(savingCents)]}
                /\ UNCHANGED <<res, tx>>

\* lines 1781-1839: BEGIN, the inserts, COMMIT (or ROLLBACK) of a waiting request
StartMonthEnd(client, failAt) ==
    \E q \in inflight :
        /\ q.client = client
        /\ LET w == StartMonthTx(DB, nextId, q.start, q.incomeCents, q.weeklyCents,
                                 q.savingCents, failAt)
           IN  /\ nextId.month <= MaxMonths
               /\ Store(w.db)
               /\ tx' = Ended(w.ok)
               /\ nextId' = IF w.ok
                            THEN [nextId EXCEPT !.month = @ + 1, !.week = @ + w.nWeeks]
                            ELSE nextId
               /\ res' = IF w.ok
                         THEN Response("startMonth", 200, "", w.month)
                         ELSE Response("startMonth", 500, "Error creando mes", NULL)
        /\ inflight' = inflight \ {q}
        /\ UNCHANGED <<today, arg, out>>

NextStartRace ==
    \/ \E c \in Clients, r \in StartMonthRequests :
          StartMonthBegin(c, r.incomeAmount, r.savingGoalAmount, r.weeklyBudgetAmount,
                          r.startDate)
    \/ \E c \in Clients, f \in 0..2 : StartMonthEnd(c, f)
    \/ \E id \in MonthIds : CloseMonth(Some(id), 0)

SpecStartRace == Init /\ [][NextStartRace]_vars

(***************************************************************************)
(* SpecPartition: the week intervals of a month begun on any date.         *)
(***************************************************************************)
InitPartition ==
    /\ months = {}
    /\ weeks = {}
    /\ ledger = {}
    /\ entries = {}
    /\ nextId = [month |-> 1, week |-> 1, tx |-> 1, entry |-> 1]
    /\ today = 25
    /\ res = NoResponse
    /\ tx = "none"
    /\ inflight = {}
    /\ arg \in {Some(d) : d \in Dates}
    /\ out = NULL

\* the loop of POST /month/start over start = arg, end = the last day of its month
Partition ==
    /\ out = NULL
    /\ out' = Some(partitionWeeks(Val(arg), MonthEnd(Val(arg))))
    /\ UNCHANGED <<dbVars, today, res, tx, inflight, arg>>

SpecPartition == InitPartition /\ [][Partition]_vars

(***************************************************************************)
(* SpecLedger: every route that writes the ledger, on the first month and  *)
(* a ledger of MaxTxLedger rows.                                           *)
(***************************************************************************)
RoomLedger == nextId'.tx <= MaxTxLedger + 1 /\ nextId'.entry <= MaxTxLedger + 1

NextLedger ==
    \/ \E r \in ValidStart :
          /\ r.startDate = NULL
          /\ StartMonth(r.incomeAmount, r.savingGoalAmount, r.weeklyBudgetAmount,
                        r.startDate, 0)
    \/ \E m \in months : CloseMonth(Some(m.id), 0) /\ RoomLedger
    \/ CurrentSummary(0) /\ RoomLedger
    \/ \E w \in weeks, r \in CloseWeekRequests :
          /\ r.note = "nota"
          /\ CloseWeek(w.id, r.piggyTwoAmount, r.piggyNormalAmount, r.returnToBankAmount,
                       r.note, 0) /\ RoomLedger
    \/ \E w \in weeks : CashReturn(w.id, <<"5">>) /\ RoomLedger
    \/ \E r \in LedgerRequests : CreateTransaction(r) /\ RoomLedger
    \/ \E t \in ledger, r \in LedgerRequests : UpdateTransaction(t.id, r)
    \/ \E t \in ledger : DeleteTransaction(t.id)
    \/ \E r \in ExtraIncomeRequests :
          r.month_id = Some(1) /\ RecordExtraIncome(r) /\ RoomLedger
    \/ \E r \in EmergencyRequests :
          r.note # "" /\ SafetyEmergency(r) /\ RoomLedger
    \/ SafetyBalance
    \/ \E r \in PiggyDepositRequests :
          /\ r.id = "NORMAL" /\ r.month_id = Some(1)
          /\ DepositToPiggyBank(r.id, r.amount, r.note, r.month_id, 0) /\ RoomLedger

SpecLedger == Init /\ [][NextLedger]_vars

(***************************************************************************)
(* SpecMoney: parseMoneyToCents and centsToEur on one input, a text or a   *)
(* number of cents.                                                        *)
(***************************************************************************)
MoneyAlphabet == {"0", "3", "5", ".", ",", " "}

MoneyInputs ==
    UNION {[1..n -> MoneyAlphabet] : n \in 0..MaxMoneyLen}
    \cup {Undefined, <<" ", "3", ".", "5", " ">>, <<"a", "b", "c">>, <<"-", "5">>,
          <<"1", ".", "2", "3", "4", ".", "5", "6">>}

InitMoney ==
    /\ months = {}
    /\ weeks = {}
    /\ ledger = {}
    /\ entries = {}
    /\ nextId = [month |-> 1, week |-> 1, tx |-> 1, entry |-> 1]
    /\ today = 25
    /\ res = NoResponse
    /\ tx = "none"
    /\ inflight = {}
    /\ arg \in {[kind |-> "text", value |-> t] : t \in MoneyInputs}
              \cup {[kind |-> "cents", value |-> c] : c \in 0..MaxCents}
    /\ out = NULL

\* centsToEur(parseMoneyToCents(text))
ParseThenFormat ==
    /\ out = NULL
    /\ arg.kind = "text"
    /\ LET cents == parseMoneyToCents(arg.value)
       IN  out' = Some([cents |-> cents, eur |-> centsToEur(cents)])
    /\ UNCHANGED <<dbVars, today, res, tx, inflight, arg>>

\* parseMoneyToCents(centsToEur(cents)): the Number goes through String(input)
FormatThenParse ==
    /\ out = NULL
    /\ arg.kind = "cents"
    /\ LET eur == centsToEur(Some(arg.value))
       IN  out' = Some([eur |-> eur, cents |-> parseMoneyToCents(NumberToString(Val(eur)))])
    /\ UNCHANGED <<dbVars, today, res, tx, inflight, arg>>

NextMoney == ParseThenFormat \/ FormatThenParse

SpecMoney == InitMoney /\ [][NextMoney]_vars

(***************************************************************************)
(* SpecClock: the summary of the open month as the days go by, with a      *)
(* store that may fail at the weekly withdrawal.                           *)
(***************************************************************************)
NextClock ==
    \/ \E r \in ValidStart :
          StartMonth(r.incomeAmount, r.savingGoalAmount, r.weeklyBudgetAmount,
                     r.startDate, 0)
    \/ Tick
    \/ \E f \in 0..1 : CurrentSummary(f)
    \/ \E r \in CashExpenses : CreateTransaction(r) /\ RoomMonth

SpecClock == Init /\ [][NextClock]_vars

(***************************************************************************)
(* SpecTypes: transactions posted with a type of their own choice.         *)
(***************************************************************************)
\* a body of POST /transactions with the given type and direction
TypedRequest(type, direction) ==
    [amount |-> <<"1">>, type |-> type, direction |-> direction, month_id |-> Some(1),
     week_id |-> NULL, category_id |-> "Compra", attribution |-> "HOUSE",
     payment_method |-> "TRANSFER", date_time |-> NULL, concept |-> "", note |-> ""]

TypedRequests ==
    {TypedRequest(type, "") : type \in TxTypes \cup {""}}
    \cup {TypedRequest("EXPENSE", "IN"), TypedRequest("otro", "")}

NextTypes ==
    \/ \E r \in ValidStart :
          StartMonth(r.incomeAmount, r.savingGoalAmount, r.weeklyBudgetAmount,
                     r.startDate, 0)
    \/ \E r \in TypedRequests : CreateTransaction(r) /\ RoomLedger
    \/ \E t \in ledger : DeleteTransaction(t.id)

SpecTypes == Init /\ [][NextTypes]_vars

(***************************************************************************)
(* SpecEdit: the rows of the ledger edited one at a time, by an id that    *)
(* may name no row.                                                        *)
(***************************************************************************)
EditRequests ==
    LedgerRequests
    \cup {[amount |-> <<"3">>, type |-> "", direction |-> "", month_id |-> Some(1),
           week_id |-> NULL, category_id |-> "Cafe", attribution |-> "PARTNER",
           payment_method |-> "TRANSFER", date_time |-> Some(29), concept |-> "luz",
           note |-> "nota"]}

NextEdit ==
    \/ \E r \in ValidStart :
          /\ r.startDate = NULL
          /\ StartMonth(r.incomeAmount, r.savingGoalAmount, r.weeklyBudgetAmount,
                        r.startDate, 0)
    \/ CurrentSummary(0) /\ RoomLedger
    \/ \E r \in LedgerRequests : CreateTransaction(r) /\ RoomLedger
    \/ \E id \in TxIds, r \in EditRequests : UpdateTransaction(id, r)

SpecEdit == Init /\ [][NextEdit]_vars

(***************************************************************************)
(* SpecCloseRace: POST /weeks/:id/close requests of several clients.  The  *)
(* SELECT of the week takes no lock and the transaction runs at READ       *)
(* COMMITTED: the status and the pocket cash are those committed when they *)
(* are read, and another request may run at any await before the writes.   *)
(***************************************************************************)
\* lines 1917-1961: the amounts, BEGIN, the week, its status and the pocket cash
\* of its month
CloseWeekCheck(client, id, piggyTwoAmount, piggyNormalAmount, returnToBankAmount, note) ==
    LET piggyTwoCents    == OrZero(Cents(piggyTwoAmount))
        piggyNormalCents == OrZero(Cents(piggyNormalAmount))
        returnCents      == OrZero(Cents(returnToBankAmount))
        totalToMove      == piggyTwoCents + piggyNormalCents + returnCents
        Fail(status, error, transaction) ==
            /\ res' = Response("closeWeek", status, error, NULL)
            /\ tx' = transaction
            /\ UNCHANGED inflight
    IN  /\ \A q \in inflight : q.client # client
        /\ UNCHANGED <<dbVars, today, arg, out>>
        /\ IF NegativeAmounts(piggyTwoCents, piggyNormalCents, returnCents)
           THEN Fail(400, "Los importes deben ser >= 0", "none")
           ELSE IF totalToMove <= 0
           THEN Fail(400, "Debes indicar al menos un importe (> 0)", "none")
           ELSE IF ById(weeks, id) = {}
           THEN Fail(404, "Semana no encontrada", "rolled back")
           ELSE LET week == CHOOSE w \in weeks : w.id = id
                    cashBalance == getCashBalanceForMonth(DB, week.month_id)
                IN  IF ~WeekIsOpen(week)
                    THEN Fail(400, "La semana no esta OPEN", "rolled back")
                    ELSE IF totalToMove > cashBalance
                    THEN Fail(400, "No hay suficiente efectivo en bolsillo", "rolled back")
                    ELSE /\ inflight' = inflight \cup
                               {[client |-> client, week |-> week,
                                 piggyTwoCents |-> piggyTwoCents,
                                 piggyNormalCents |-> piggyNormalCents,
                                 returnCents |-> returnCents,
                                 finalNote |-> FinalNote(note),
                                 cashBalance |-> cashBalance]}
                         /\ UNCHANGED <<res, tx>>

\* lines 1963-2075: the inserts tagged with the week that was read, the UPDATEs
\* of the week's row as committed by then, COMMIT and the answer
CloseWeekEnd(client, failAt) ==
    \E q \in inflight :
        /\ q.client = client
        /\ inflight' = inflight \ {q}
        /\ UNCHANGED <<today, arg, out>>
        /\ LET week == CHOOSE w \in weeks : w.id = q.week.id
               w == CloseWeekTx(DB, nextId, week, q.piggyTwoCents, q.piggyNormalCents,
                                q.returnCents, q.finalNote, today, failAt)
               totalToMove == q.piggyTwoCents + q.piggyNormalCents + q.returnCents
           IN  /\ nextId.tx + w.nTx <= MaxTx + 1
               /\ Store(w.db)
               /\ tx' = Ended(w.ok)
               /\ nextId' = IF w.ok
                            THEN [nextId EXCEPT !.tx = @ + w.nTx, !.entry = @ + w.nEntries]
                            ELSE nextId
               /\ res' = IF w.ok
                         THEN Response("closeWeek", 200, "",
                                [week |-> w.week,
                                 moved |-> [piggyTwo |-> q.piggyTwoCents,
                                            piggyNormal |-> q.piggyNormalCents,
                                            returnToBank |-> q.returnCents,
                                            total |-> totalToMove],
                                 cashBalanceBefore |-> q.cashBalance,
                                 cashBalanceAfter |-> q.cashBalance - totalToMove])
                         ELSE Response("closeWeek", 500, "Error cerrando semana", NULL)

\* a piggy-bank deposit of 2, a return of 10 (the whole withdrawal), a return
\* above the pocket cash, no amount
RaceCloseRequests ==
    {[piggyTwoAmount |-> <<"2">>, piggyNormalAmount |-> Undefined,
      returnToBankAmount |-> Undefined, note |-> "nota"],
     [piggyTwoAmount |-> Undefined, piggyNormalAmount |-> Undefined,
      returnToBankAmount |-> <<"1", "0">>, note |-> ""],
     [piggyTwoAmount |-> Undefined, piggyNormalAmount |-> Undefined,
      returnToBankAmount |-> <<"1", "1">>, note |-> ""],
     [piggyTwoAmount |-> Undefined, piggyNormalAmount |-> Undefined,
      returnToBankAmount |-> <<"0">>, note |-> ""]}

NextCloseRace ==
    \/ \E r \in ValidStart :
          /\ r.startDate = NULL
          /\ StartMonth(r.incomeAmount, r.savingGoalAmount, r.weeklyBudgetAmount,
                        r.startDate, 0)
    \/ CurrentSummary(0)
    \/ \E c \in Clients, id \in WeekIds, r \in RaceCloseRequests :
          CloseWeekCheck(c, id, r.piggyTwoAmount, r.piggyNormalAmount,
                         r.returnToBankAmount, r.note)
    \/ \E c \in Clients, f \in {0, 7} : CloseWeekEnd(c, f)

SpecCloseRace == Init /\ [][NextCloseRace]_vars

(***************************************************************************)
(* SpecPool: the clients of the connection pool.  A handler that returns   *)
(* after BEGIN with neither COMMIT nor ROLLBACK releases its client with   *)
(* the transaction open; inflight holds these clients, each with the rows  *)
(* written since through it and not yet committed.  pool.query and         *)
(* pool.connect hand out any client.  arg holds the rows whose insert was  *)
(* answered 200.                                                           *)
(***************************************************************************)
InitPool ==
    /\ months = {}
    /\ weeks = {}
    /\ ledger = {}
    /\ entries = {}
    /\ nextId = [month |-> 1, week |-> 1, tx |-> 1, entry |-> 1]
    /\ today = 25
    /\ res = NoResponse
    /\ tx = "none"
    /\ inflight = {}
    /\ arg = {}
    /\ out = NULL

InTransaction(client) == \E q \in inflight : q.client = client

\* a statement of the client's open transaction has failed: every later one
\* fails until the transaction ends, and COMMIT rolls back
Aborted(client) == \E q \in inflight : q.client = client /\ q.aborted

\* the rows the client's open transaction has written
Pending(client) == UNION {q.pending : q \in {x \in inflight : x.client = client}}

\* the rows a statement run through the client sees
Visible(client) == [DB EXCEPT !.ledger = @ \cup Pending(client)]

\* the pool after BEGIN on the client and no end to it: a BEGIN inside a
\* transaction only warns
LeftOpen(client) ==
    IF InTransaction(client) THEN inflight
    ELSE inflight \cup {[client |-> client, pending |-> {}, aborted |-> FALSE]}

\* the pool after COMMIT or ROLLBACK on the client
Closed(client) == {q \in inflight : q.client # client}

\* POST /month/close through the client
PoolCloseMonth(client, monthId) ==
    /\ UNCHANGED <<today, arg, out>>
    /\ IF monthId = NULL
       THEN /\ res' = Response("closeMonth", 400, "monthId es obligatorio", NULL)
            /\ tx' = "none"
            /\ UNCHANGED <<dbVars, inflight>>
       ELSE IF Aborted(client)
       THEN /\ res' = Response("closeMonth", 500, "Error cerrando mes", NULL)
            /\ tx' = "rolled back"
            /\ inflight' = Closed(client)
            /\ UNCHANGED dbVars
       ELSE IF ById(months, Val(monthId)) = {}
       THEN /\ res' = Response("closeMonth", 404, "Mes no encontrado", NULL)
            /\ tx' = "open"
            /\ inflight' = LeftOpen(client)
            /\ UNCHANGED dbVars
       ELSE LET month == CHOOSE m \in months : m.id = Val(monthId)
            IN  IF ~MonthIsOpen(month)
                THEN /\ res' = Response("closeMonth", 400, "El mes no esta OPEN", NULL)
                     /\ tx' = "open"
                     /\ inflight' = LeftOpen(client)
                     /\ UNCHANGED dbVars
                ELSE LET w == CloseMonthTx(Visible(client), nextId, month, today, 0)
                     IN  /\ nextId.tx + w.inserted <= MaxTx + 1
                         /\ Store(w.db)
                         /\ tx' = "committed"
                         /\ inflight' = Closed(client)
                         /\ nextId' = [nextId EXCEPT !.tx = @ + w.inserted]
                         /\ res' = Response("closeMonth", 200, "",
                                            [month |-> w.month, totals |-> w.totals])

\* POST /transactions: pool.query runs the INSERT through the client, inside the
\* transaction the client was left with when it has one
PoolCreateTransaction(client, r) ==
    LET amountCents == Cents(r.amount)
        error == CreateTransactionValidation(amountCents, r.type, r.month_id, r.category_id,
                                             r.attribution, r.payment_method)
    IN  /\ tx' = "none"
        /\ UNCHANGED <<today, out, months, weeks, entries>>
        /\ IF error # ""
           THEN /\ res' = Response("createTransaction", 400, error, NULL)
                /\ UNCHANGED <<ledger, nextId, inflight, arg>>
           ELSE LET row == CreateTransactionRow(nextId.tx, today, r.date_time,
                               Val(amountCents), r.type, r.direction, Val(r.month_id),
                               r.week_id, r.category_id, r.attribution, r.payment_method,
                               r.concept, r.note)
                IN  IF Aborted(client) \/ TxConstraintViolated(DB, row)
                    THEN /\ res' = Response("createTransaction", 500,
                                            "Error creando transaccion", NULL)
                         /\ inflight' = IF InTransaction(client)
                                        THEN Closed(client)
                                                 \cup {[client |-> client,
                                                        pending |-> Pending(client),
                                                        aborted |-> TRUE]}
                                        ELSE inflight
                         /\ UNCHANGED <<ledger, nextId, arg>>
                    ELSE /\ nextId.tx <= MaxTx
                         /\ nextId' = [nextId EXCEPT !.tx = @ + 1]
                         /\ res' = Response("createTransaction", 200, "", row)
                         /\ arg' = arg \cup {row}
                         /\ IF InTransaction(client)
                            THEN /\ inflight' = Closed(client)
                                        \cup {[client |-> client,
                                               pending |-> Pending(client) \cup {row},
                                               aborted |-> FALSE]}
                                 /\ UNCHANGED ledger
                            ELSE /\ ledger' = ledger \cup {row}
                                 /\ UNCHANGED inflight

\* DELETE /month/:id through the client: BEGIN, SELECT, then ROLLBACK and 404, or
\* DELETE and COMMIT; either ends the transaction the client was left with
PoolDeleteMonth(client, id) ==
    /\ UNCHANGED <<today, arg, out, nextId>>
    /\ inflight' = Closed(client)
    /\ IF Aborted(client)
       THEN /\ res' = Response("deleteMonth", 500, "Error borrando el mes", NULL)
            /\ tx' = "rolled back"
            /\ UNCHANGED <<months, weeks, ledger, entries>>
       ELSE IF ById(months, id) = {}
       THEN /\ res' = Response("deleteMonth", 404, "Mes no encontrado", NULL)
            /\ tx' = "rolled back"
            /\ UNCHANGED <<months, weeks, ledger, entries>>
       ELSE LET month == CHOOSE m \in months : m.id = id
            IN  /\ Store(DeleteMonthTx(Visible(client), month).db)
                /\ tx' = "committed"
                /\ res' = Response("deleteMonth", 200, "", [deletedMonthId |-> id])

NextPool ==
    \/ \E r \in ValidStart :
          /\ inflight = {} /\ r.startDate = NULL /\ UNCHANGED inflight
          /\ StartMonth(r.incomeAmount, r.savingGoalAmount, r.weeklyBudgetAmount,
                        r.startDate, 0)
    \/ \E c \in Clients, id \in {NULL, Some(0)} : PoolCloseMonth(c, id)
    \/ \E c \in Clients, r \in LedgerRequests : PoolCreateTransaction(c, r) /\ RoomLedger
    \/ \E c \in Clients : PoolDeleteMonth(c, 0)

SpecPool == InitPool /\ [][NextPool]_vars

(***************************************************************************)
(* SpecPiggy: deposits into the piggy banks, with a store that may fail at *)
(* either of their two statements, and the months they are tagged to.      *)
(***************************************************************************)
NextPiggy ==
    \/ \E r \in ValidStart :
          StartMonth(r.incomeAmount, r.savingGoalAmount, r.weeklyBudgetAmount,
                     r.startDate, 0)
    \/ \E r \in PiggyDepositRequests, f \in 0..2 :
          DepositToPiggyBank(r.id, r.amount, r.note, r.month_id, f)
    \/ \E id \in MonthIds : DeleteMonth(id)

SpecPiggy == Init /\ [][NextPiggy]_vars

(***************************************************************************)
(* SpecBudget: the figures of a month changed while some of its weeks are  *)
(* closed and another month has weeks of its own.                          *)
(***************************************************************************)
BudgetRequests ==
    UpdateMonthRequests
    \cup {[incomeAmount |-> Undefined, savingGoalAmount |-> Undefined,
           weeklyBudgetAmount |-> <<"2">>]}

NextBudget ==
    \/ \E r \in ValidStart :
          StartMonth(r.incomeAmount, r.savingGoalAmount, r.weeklyBudgetAmount,
                     r.startDate, 0)
    \/ \E m \in months : CloseMonth(Some(m.id), 0) /\ RoomMonth
    \/ \E id \in MonthIds, r \in BudgetRequests :
          UpdateMonth(id, r.incomeAmount, r.savingGoalAmount, r.weeklyBudgetAmount)
    \/ CurrentSummary(0) /\ RoomMonth
    \/ \E w \in weeks, r \in CloseWeekRequests :
          /\ r.note = "nota"
          /\ CloseWeek(w.id, r.piggyTwoAmount, r.piggyNormalAmount, r.returnToBankAmount,
                       r.note, 0) /\ RoomMonth

SpecBudget == Init /\ [][NextBudget]_vars

(***************************************************************************)
(* SpecEnsure: on the stores the weeks of a month go through, the          *)
(* withdrawal of GET /summary/current run twice in succession for the      *)
(* current week.                                                           *)
(***************************************************************************)
\* what the ledger holds after one run and after the run that follows it
SummaryTwice ==
    /\ out = NULL
    /\ \E month \in CurrentMonth(DB) :
          \E w \in SummaryWeek(DB, month, today) :
             LET first  == SummaryEnsure(DB, nextId, {w}, 0)
                 ids    == [nextId EXCEPT !.tx = @ + first.inserted]
                 second == SummaryEnsure(first.db, ids, {w}, 0)
             IN  out' = Some([week |-> w, before |-> ledger, once |-> first.db.ledger,
                              twice |-> second.db.ledger])
    /\ UNCHANGED <<dbVars, today, res, tx, inflight, arg>>

NextEnsure ==
    \/ \E r \in ValidStart :
          out = NULL /\ StartMonth(r.incomeAmount, r.savingGoalAmount,
                                   r.weeklyBudgetAmount, r.startDate, 0)
    \/ \E id \in WeekIds, r \in CloseWeekRequests :
          out = NULL /\ CloseWeek(id, r.piggyTwoAmount, r.piggyNormalAmount,
                                  r.returnToBankAmount, r.note, 0)
    \/ \E f \in 0..1 : out = NULL /\ CurrentSummary(f)
    \/ \E r \in CashExpenses : out = NULL /\ CreateTransaction(r)
    \/ \E id \in TxIds : out = NULL /\ DeleteTransaction(id)
    \/ SummaryTwice

SpecEnsure == Init /\ [][NextEnsure]_vars

(***************************************************************************)
(* SpecSummaryRace: GET /summary/current requests of several clients.  The *)
(* transaction of the withdrawal runs at READ COMMITTED: its existence     *)
(* check sees the rows committed so far, and another request may run at    *)
(* the await between the check and the insert.                             *)
(***************************************************************************)
\* lines 1546-1574, 1579 and 1235-1244: the month and the week are read through
\* the pool, the transaction begins and looks for the withdrawal of the week
SummaryCheck(client) ==
    /\ \A q \in inflight : q.client # client
    /\ UNCHANGED <<dbVars, today, arg, out>>
    /\ IF CurrentMonth(DB) = {}
       THEN /\ res' = Response("currentSummary", 200, "", NULL)
            /\ tx' = "none"
            /\ UNCHANGED inflight
       ELSE LET month == CHOOSE m \in CurrentMonth(DB) : TRUE
                week  == SummaryWeek(DB, month, today)
            IN  /\ inflight' = inflight \cup
                      {[client |-> client, month |-> month, week |-> week,
                        insert |-> \E w \in week : /\ w.cash_withdraw_amount > 0
                                                   /\ ~CashWithdrawalExists(DB, w)]}
                /\ UNCHANGED <<res, tx>>

\* lines 1246-1258 and 1581-1749: the insert when no withdrawal was seen, COMMIT,
\* and the figures of the answer
SummaryEnd(client) ==
    \E q \in inflight :
        /\ q.client = client
        /\ LET rows  == IF q.insert
                        THEN {CashWithdrawalRow(nextId, CHOOSE w \in q.week : TRUE)}
                        ELSE {}
               after == Commit(DB, [DB EXCEPT !.ledger = @ \cup rows])
           IN  /\ nextId.tx + Cardinality(rows) <= MaxTx + 1
               /\ Store(after)
               /\ tx' = IF q.week = {} THEN "none" ELSE "committed"
               /\ nextId' = [nextId EXCEPT !.tx = @ + Cardinality(rows)]
               /\ res' = Response("currentSummary", 200, "",
                                  SummaryBody(after, q.month, q.week, today))
        /\ inflight' = inflight \ {q}
        /\ UNCHANGED <<today, arg, out>>

NextSummaryRace ==
    \/ \E r \in ValidStart :
          StartMonth(r.incomeAmount, r.savingGoalAmount, r.weeklyBudgetAmount,
                     r.startDate, 0)
    \/ \E c \in Clients : SummaryCheck(c)
    \/ \E c \in Clients : SummaryEnd(c)
    \/ \E r \in CashExpenses : inflight = {} /\ CreateTransaction(r)
    \/ \E id \in TxIds : inflight = {} /\ DeleteTransaction(id)

SpecSummaryRace == Init /\ [][NextSummaryRace]_vars

(***************************************************************************)
(* Properties.                                                             *)
(***************************************************************************)
\* the body of a POST /month/start passes the validation of lines 1756-1770
ValidBody(r) ==
    LET i == Cents(r.incomeAmount)
        g == Cents(r.savingGoalAmount)
        w == Cents(r.weeklyBudgetAmount)
    IN  i # NULL /\ g # NULL /\ w # NULL /\ Val(i) > 0 /\ Val(g) >= 0 /\ Val(w) >= 0

\* pocket cash of a month: what was withdrawn less what left the pocket
PocketCash(rows, monthId) ==
    SumAmounts({t \in rows : t.month_id = monthId /\ t.type = "CASH_WITHDRAWAL"})
    - SumAmounts({t \in rows : t.month_id = monthId /\ t.type = "CASH_RETURN"})
    - SumAmounts({t \in rows : t.month_id = monthId /\ t.payment_method = "CASH"
                               /\ t.type \in {"EXPENSE", "PIGGYBANK_DEPOSIT"}})

\* C1: in every state reached by startMonth, updateMonth, closeMonth and
\* deleteMonth requests handled one after another, at most one month is OPEN.
C1_AtMostOneOpenMonth == Cardinality({m \in months : m.status = "OPEN"}) <= 1

\* a second month was started after the first one was closed
C1_Witness ==
    /\ res.op = "startMonth" /\ res.status = 200
    /\ Cardinality(months) = 2
    /\ Cardinality({m \in months : m.status = "OPEN"}) = 1

\* C2 (as amended): startMonth while a month is OPEN always fails with status
\* 400 and leaves months, weeks and ledger as they were; the error is the
\* conflict "Ya existe un mes OPEN" when the body is valid, and the validation
\* error of the body, which is checked first, when it is not.
C2_StartWhileOpenFails ==
    [][(res'.op = "startMonth" /\ \E m \in months : m.status = "OPEN")
       => \A r \in StartMonthRequests, f \in 0..3 :
             StartMonth(r.incomeAmount, r.savingGoalAmount, r.weeklyBudgetAmount,
                        r.startDate, f)
             => /\ res'.status = 400
                /\ ValidBody(r) => res'.error = "Ya existe un mes OPEN"
                /\ ~ValidBody(r) => /\ res'.error # "Ya existe un mes OPEN"
                                    /\ res'.error # ""
                /\ months' = months /\ weeks' = weeks /\ ledger' = ledger]_vars

\* a valid startMonth was refused because a month is OPEN
C2_Witness ==
    /\ res.op = "startMonth" /\ res.error = "Ya existe un mes OPEN"
    /\ \E m \in months : m.status = "OPEN"
    /\ weeks # {}

\* C2 as stated: startMonth while a month is OPEN always fails with the
\* conflict error, whatever its body, and leaves the store as it was.
C2_AlwaysConflict ==
    [][(res'.op = "startMonth" /\ \E m \in months : m.status = "OPEN")
       => \A r \in StartMonthRequests, f \in 0..3 :
             StartMonth(r.incomeAmount, r.savingGoalAmount, r.weeklyBudgetAmount,
                        r.startDate, f)
             => /\ res'.error = "Ya existe un mes OPEN"
                /\ months' = months /\ weeks' = weeks /\ ledger' = ledger]_vars

\* C3: when startMonth requests for different calendar months interleave, at
\* most one of them commits a month: no two months are OPEN together.
C3_NoTwoOpenInterleaved ==
    \A a \in months, b \in months :
        (a.status = "OPEN" /\ b.status = "OPEN") => a.id = b.id

\* C4: a successful startMonth adds the month, OPEN, and exactly one week per
\* interval of partitionWeeks(start, monthEnd), each OPEN with
\* cash_withdraw_amount = the weekly budget and nothing returned; a startMonth
\* that fails (any insert failing included) leaves months and weeks as they were.
C4_StartMonthAtomic ==
    [][(res'.op = "startMonth")
       => IF res'.status = 200
          THEN LET month == res'.body
                   rows  == partitionWeeks(month.start_date, MonthEnd(month.start_date))
                   mine  == {w \in weeks' : w.month_id = month.id}
               IN  /\ month.status = "OPEN"
                   /\ month \notin months
                   /\ months' = months \cup {month}
                   /\ weeks' = weeks \cup mine
                   /\ \A w \in weeks : w.month_id # month.id
                   /\ Cardinality(mine) = Len(rows)
                   /\ \A i \in 1..Len(rows) : \E w \in mine :
                         /\ w.week_index = rows[i].week_index
                         /\ w.start_date = rows[i].start_date
                         /\ w.end_date = rows[i].end_date
                         /\ w.status = "OPEN"
                         /\ w.cash_withdraw_amount = month.weekly_budget_amount
                         /\ w.cash_returned_to_bank_amount = 0
          ELSE months' = months /\ weeks' = weeks]_vars

\* a month of two weeks was started
C4_Witness ==
    /\ res.op = "startMonth" /\ res.status = 200
    /\ Cardinality({w \in weeks : w.month_id = res.body.id}) = 2
    /\ \A w \in weeks : w.month_id = res.body.id => w.cash_withdraw_amount = 1000

RECURSIVE SumDurations(_)
\* the days of the intervals of ws, added up
SumDurations(ws) ==
    IF ws = <<>> THEN 0
    ELSE Head(ws).end_date - Head(ws).start_date + 1 + SumDurations(Tail(ws))

\* C5: for every start date, with end the last day of its calendar month, the
\* weeks of the partition follow one another with no gap and no overlap, the
\* first starts on start, the last ends on end, and their durations add up
\* to end - start + 1.
C5_PartitionCoversMonth ==
    out # NULL =>
        LET start == Val(arg)
            ws    == Val(out)
            end   == CHOOSE d \in start..(start + 31) :
                        /\ Civil(d).m = Civil(start).m
                        /\ Civil(d + 1).m # Civil(start).m
        IN  /\ Len(ws) >= 1
            /\ ws[1].start_date = start
            /\ ws[Len(ws)].end_date = end
            /\ \A i \in 1..Len(ws) : ws[i].start_date <= ws[i].end_date
            /\ \A i \in 1..(Len(ws) - 1) : ws[i + 1].start_date = ws[i].end_date + 1
            /\ SumDurations(ws) = end - start + 1

\* the partition of a month begun on a Sunday, into weeks that include a cut one
C5_Witness ==
    /\ out # NULL
    /\ GetDay(Val(arg)) = 0
    /\ Len(Val(out)) >= 4
    /\ Val(out)[1].end_date = Val(arg)

\* C6: the status of a month and of a week only moves from OPEN to CLOSED:
\* no request sets a CLOSED row back to OPEN, and closed_at is null exactly
\* while the status is OPEN.
C6_StatusOnlyCloses ==
    [][/\ \A m \in months, n \in months' :
             (m.id = n.id /\ m.status = "CLOSED") => n.status = "CLOSED"
       /\ \A w \in weeks, v \in weeks' :
             (w.id = v.id /\ w.status = "CLOSED") => v.status = "CLOSED"
       /\ \A n \in months' : /\ n.status \in {"OPEN", "CLOSED"}
                             /\ (n.closed_at = NULL) <=> (n.status = "OPEN")
       /\ \A v \in weeks' :  /\ v.status \in {"OPEN", "CLOSED"}
                             /\ (v.closed_at = NULL) <=> (v.status = "OPEN")]_vars

\* a month and one of its weeks are CLOSED and the month was updated since
C6_Witness ==
    /\ res.op = "updateMonth" /\ res.status = 200
    /\ \E m \in months : m.status = "CLOSED" /\ m.id = res.body.id
    /\ \E w \in weeks : w.status = "CLOSED"

\* C7: closeMonth on an OPEN month consolidates max(0, income_amount + the
\* IN/EXTRA_INCOME rows of the month - its OUT/EXPENSE rows): it appends
\* exactly one CONSOLIDATE_TO_SAFETY/IN row of that amount when it is > 0 and
\* none when it is 0, and the month is CLOSED; the saving goal has no part.
C7_CloseMonthConsolidates ==
    [][(res'.op = "closeMonth" /\ res'.status = 200)
       => \A m \in months, f \in 0..2 :
             (m.status = "OPEN" /\ m.id = res'.body.month.id /\ CloseMonth(Some(m.id), f))
             => LET extra == SumAmounts({t \in ledger : /\ t.month_id = m.id
                                                        /\ t.direction = "IN"
                                                        /\ t.type = "EXTRA_INCOME"})
                    spent == SumAmounts({t \in ledger : /\ t.month_id = m.id
                                                        /\ t.direction = "OUT"
                                                        /\ t.type = "EXPENSE"})
                    remainder == m.income_amount + extra - spent
                    toConsolidate == IF remainder > 0 THEN remainder ELSE 0
                    new == ledger' \ ledger
                IN  /\ ledger \subseteq ledger'
                    /\ IF toConsolidate > 0
                       THEN /\ Cardinality(new) = 1
                            /\ \A t \in new : /\ t.type = "CONSOLIDATE_TO_SAFETY"
                                              /\ t.direction = "IN"
                                              /\ t.amount = toConsolidate
                                              /\ t.month_id = m.id
                       ELSE new = {}
                    /\ res'.body.totals.consolidated = toConsolidate
                    /\ \E n \in months' : n.id = m.id /\ n.status = "CLOSED"]_vars

\* a month with a saving goal and an extra income was closed: all of it went
\* to the safety fund
C7_Witness ==
    /\ res.op = "closeMonth" /\ res.status = 200
    /\ res.body.month.saving_goal_amount > 0
    /\ res.body.totals.totalIncome > res.body.month.income_amount
    /\ res.body.totals.consolidated = res.body.totals.totalIncome
    /\ \E t \in ledger : /\ t.type = "CONSOLIDATE_TO_SAFETY"
                         /\ t.amount = res.body.totals.consolidated

\* C8: closeMonth on a month that is not OPEN fails with the conflict error,
\* and on an unknown id with not-found, appending no ledger row and changing no
\* month; a closeMonth succeeds only on an OPEN month, so of the closeMonth
\* requests on one month one succeeds, and closing never leaves a month with
\* more than one CONSOLIDATE_TO_SAFETY row (the rows posted directly in
\* SpecMonth are expenses and extra incomes).
C8_CloseMonthOnce ==
    [][/\ (res'.op = "closeMonth")
          => \A id \in MonthIds, f \in 0..2 :
                CloseMonth(Some(id), f)
                => /\ (ById(months, id) = {})
                      => ( /\ res'.status = 404 /\ res'.error = "Mes no encontrado"
                           /\ ledger' = ledger /\ months' = months )
                   /\ (\E m \in months : m.id = id /\ m.status # "OPEN")
                      => ( /\ res'.status = 400 /\ res'.error = "El mes no esta OPEN"
                           /\ ledger' = ledger /\ months' = months )
                   /\ (res'.status = 200)
                      => ( /\ \E m \in months : m.id = id /\ m.status = "OPEN"
                           /\ \E n \in months' : n.id = id /\ n.status = "CLOSED" )
       /\ \A n \in months' :
             Cardinality({t \in ledger' : /\ t.type = "CONSOLIDATE_TO_SAFETY"
                                          /\ t.month_id = n.id}) <= 1]_vars

\* a month closed with a consolidation was asked to close again
C8_Witness ==
    /\ res.op = "closeMonth" /\ res.status = 400 /\ res.error = "El mes no esta OPEN"
    /\ \E m \in months, t \in ledger :
          /\ m.status = "CLOSED"
          /\ t.type = "CONSOLIDATE_TO_SAFETY" /\ t.month_id = m.id

\* C9: a successful closeWeek appends, for each positive piggy amount, one
\* piggy-bank entry and one PIGGYBANK_DEPOSIT/OUT/CASH row of that amount tagged
\* to the week, and for a positive return one CASH_RETURN/IN/CASH row tagged to
\* the week, adding the amount to the week's cash_returned_to_bank_amount; the
\* week is CLOSED and the month's pocket cash drops by the total moved.
C9_CloseWeekMoves ==
    [][(res'.op = "closeWeek" /\ res'.status = 200)
       => \A w \in weeks, r \in CloseWeekRequests, f \in {0, 2, 7} :
          ( /\ w.id = res'.body.week.id
            /\ CloseWeek(w.id, r.piggyTwoAmount, r.piggyNormalAmount,
                         r.returnToBankAmount, r.note, f) )
          => LET two    == OrZero(Cents(r.piggyTwoAmount))
                 normal == OrZero(Cents(r.piggyNormalAmount))
                 back   == OrZero(Cents(r.returnToBankAmount))
                 newTx  == ledger' \ ledger
                 newEn  == entries' \ entries
                 deposits == {t \in newTx : /\ t.type = "PIGGYBANK_DEPOSIT"
                                            /\ t.direction = "OUT"
                                            /\ t.payment_method = "CASH"
                                            /\ t.week_id = Some(w.id)}
                 returns  == {t \in newTx : /\ t.type = "CASH_RETURN"
                                            /\ t.direction = "IN"
                                            /\ t.payment_method = "CASH"
                                            /\ t.week_id = Some(w.id)}
                 jar(name, amount) ==
                     IF amount > 0
                     THEN /\ Cardinality({e \in newEn : e.piggy_bank_id = name}) = 1
                          /\ \A e \in newEn : e.piggy_bank_id = name => e.amount = amount
                          /\ \E t \in deposits : t.amount = amount
                     ELSE \A e \in newEn : e.piggy_bank_id # name
             IN  /\ ledger \subseteq ledger' /\ entries \subseteq entries'
                 /\ jar("TWO_EURO", two) /\ jar("NORMAL", normal)
                 /\ Cardinality(deposits) = B2N(two > 0) + B2N(normal > 0)
                 /\ Cardinality(returns) = B2N(back > 0)
                 /\ \A t \in returns : t.amount = back
                 /\ newTx = deposits \cup returns
                 /\ \E v \in weeks' :
                       /\ v.id = w.id /\ v.status = "CLOSED"
                       /\ v.cash_returned_to_bank_amount =
                             w.cash_returned_to_bank_amount + back
                 /\ PocketCash(ledger', w.month_id)
                       = PocketCash(ledger, w.month_id) - (two + normal + back)]_vars

\* with 1000 in the pocket a week was closed moving 200, 300 and 500: three
\* rows were added to the withdrawal and the pocket is empty
C9_Witness ==
    /\ res.op = "closeWeek" /\ res.status = 200
    /\ res.body.cashBalanceBefore = 1000
    /\ res.body.moved = [piggyTwo |-> 200, piggyNormal |-> 300, returnToBank |-> 500,
                         total |-> 1000]
    /\ Cardinality(ledger) = 4
    /\ Cardinality(entries) = 2
    /\ PocketCash(ledger, res.body.week.month_id) = 0

\* C10: closeWeek asking to move more than the pocket cash of the week's month
\* fails: the week stays as it was (OPEN if it was), and no ledger row and no
\* piggy-bank entry is added, the week's returned amount included.
C10_CloseWeekNeedsCash ==
    [][(res'.op = "closeWeek")
       => \A w \in weeks :
             LET cash == PocketCash(ledger, w.month_id)
             IN  \A r \in CloseWeekRequests :
                    LET total == OrZero(Cents(r.piggyTwoAmount))
                                 + OrZero(Cents(r.piggyNormalAmount))
                                 + OrZero(Cents(r.returnToBankAmount))
                    IN  (total > cash)
                        => \A f \in {0, 2, 7} :
                              CloseWeek(w.id, r.piggyTwoAmount, r.piggyNormalAmount,
                                        r.returnToBankAmount, r.note, f)
                              => /\ res'.status = 400
                                 /\ (w.status = "OPEN" /\ total > 0)
                                    => res'.error = "No hay suficiente efectivo en bolsillo"
                                 /\ weeks' = weeks /\ ledger' = ledger
                                 /\ entries' = entries]_vars

\* an OPEN week with cash in the pocket was refused a closing that moves more
C10_Witness ==
    /\ res.op = "closeWeek" /\ res.status = 400
    /\ res.error = "No hay suficiente efectivo en bolsillo"
    /\ \E w \in weeks : w.status = "OPEN" /\ PocketCash(ledger, w.month_id) > 0
    /\ entries = {}

C12_EnsureIdempotent ==
    (out # NULL /\ Val(out).week.cash_withdraw_amount > 0)
    => LET w    == Val(out).week
           rows == {t \in Val(out).twice : /\ t.type = "CASH_WITHDRAWAL"
                                           /\ t.week_id = Some(w.id)}
       IN  /\ Val(out).twice = Val(out).once
           /\ Val(out).before \subseteq Val(out).once
           /\ Cardinality(rows) = 1
           /\ \A t \in rows : /\ t.direction = "OUT"
                               /\ t.amount = w.cash_withdraw_amount
                               /\ t.month_id = w.month_id

\* the first run added the withdrawal of 1000 to a ledger that had an expense,
\* the second run added nothing
C12_Witness ==
    /\ out # NULL
    /\ Val(out).week.cash_withdraw_amount = 1000
    /\ Val(out).before # {}
    /\ Cardinality(Val(out).once) = Cardinality(Val(out).before) + 1
    /\ Val(out).twice = Val(out).once

\* C13: when GET /summary/current requests for the same current week
\* interleave, at most one CASH_WITHDRAWAL row tagged to that week is ever
\* committed.
C13_OneWithdrawalInterleaved ==
    \A w \in weeks :
        Cardinality({t \in ledger : /\ t.type = "CASH_WITHDRAWAL"
                                    /\ t.week_id = Some(w.id)}) <= 1

\* a month none of whose rows moves money to or from the safety fund
NoSafetyActivity(m) ==
    \A t \in ledger : t.month_id = m.id
        => t.type \notin {"CONSOLIDATE_TO_SAFETY", "EMERGENCY_FROM_SAFETY"}

\* C14: for a month with no safety-fund activity, after any sequence of
\* ledger-writing requests, pocket cash + bank balance = income + the
\* EXTRA_INCOME rows - the EXPENSE rows of every payment method - the
\* PIGGYBANK_DEPOSIT rows.
C14_MoneyConserved ==
    \A m \in months :
        NoSafetyActivity(m)
        => LET of(type) == {t \in ledger : t.month_id = m.id /\ t.type = type}
           IN  getCashBalanceForMonth(DB, m.id) + getBankBalanceForMonth(DB, m)
               = m.income_amount + SumAmounts(of("EXTRA_INCOME"))
                 - SumAmounts(of("EXPENSE")) - SumAmounts(of("PIGGYBANK_DEPOSIT"))

\* C15: whenever startMonth, closeMonth, closeWeek, cashReturn, updateMonth or
\* deleteMonth returns, whatever the outcome, the transaction it began has been
\* committed or rolled back before its client goes back to the pool.
C15_TransactionsEnd == tx \in {"none", "committed", "rolled back"}

\* C16: depositToPiggyBank with a month id records both the piggy-bank entry
\* and its PIGGYBANK_DEPOSIT ledger row or records neither, also when the store
\* fails between the two writes.
C16_DepositAllOrNothing ==
    [][(res'.op = "depositToPiggyBank")
       => LET newEntries == entries' \ entries
              newRows    == ledger' \ ledger
          IN  /\ \A e \in newEntries :
                    e.month_id # NULL
                    => \E t \in newRows : /\ t.type = "PIGGYBANK_DEPOSIT"
                                          /\ t.amount = e.amount
                                          /\ t.month_id = Val(e.month_id)
              /\ \A t \in newRows :
                    \E e \in newEntries : /\ e.month_id = Some(t.month_id)
                                          /\ e.amount = t.amount]_vars

\* C17: deleteMonth of a known month removes the month, its weeks and its
\* transactions, and keeps every piggy-bank entry, the ones of that month with a
\* null month reference; rows of other months stay; an unknown id is answered
\* not-found with nothing changed.
C17_DeleteMonthCascade ==
    [][(res'.op = "deleteMonth")
       => \A id \in MonthIds :
            DeleteMonth(id)
            => IF ById(months, id) = {}
               THEN /\ res'.status = 404
                    /\ res'.error = "Mes no encontrado"
                    /\ UNCHANGED <<months, weeks, ledger, entries>>
               ELSE /\ res'.status = 200
                    /\ months' = {m \in months : m.id # id}
                    /\ weeks' = {w \in weeks : w.month_id # id}
                    /\ {t.id : t \in ledger'} = {t.id : t \in {x \in ledger : x.month_id # id}}
                    /\ \A t \in ledger' : t.month_id # id
                    /\ {e.id : e \in entries'} = {e.id : e \in entries}
                    /\ \A e \in entries :
                          \E n \in entries' :
                             /\ n.id = e.id
                             /\ n.amount = e.amount
                             /\ n.piggy_bank_id = e.piggy_bank_id
                             /\ n.month_id = IF e.month_id = Some(id) THEN NULL
                                             ELSE e.month_id]_vars

\* a month with weeks, a ledger row and a piggy-bank entry has just been deleted:
\* the entry is still there, without its month
C17_Witness ==
    /\ res.op = "deleteMonth"
    /\ res.status = 200
    /\ \E e \in entries : e.piggy_bank_id = "NORMAL" /\ e.month_id = NULL
    /\ \A e \in entries : e.month_id = NULL \/ \E m \in months : Some(m.id) = e.month_id

\* C18: a successful updateMonth changes, of the month, only the fields the
\* request provides, and leaves the other months, the ledger and the entries
\* alone; when weeklyBudgetAmount is provided and differs from the month's prior
\* value, every OPEN week of that month gets it as cash_withdraw_amount; CLOSED
\* weeks and the weeks of other months keep theirs; a refused update changes
\* nothing.
C18_UpdateMonthOnlyProvided ==
    [][(res'.op = "updateMonth")
       => \A id \in MonthIds, r \in BudgetRequests :
            UpdateMonth(id, r.incomeAmount, r.savingGoalAmount, r.weeklyBudgetAmount)
            => IF res'.status # 200
               THEN UNCHANGED <<months, weeks, ledger, entries>>
               ELSE \E old \in months, new \in months' :
                      /\ old.id = id /\ new.id = id
                      /\ months' \ {new} = months \ {old}
                      /\ UNCHANGED <<ledger, entries>>
                      /\ r.incomeAmount = Undefined => new.income_amount = old.income_amount
                      /\ r.savingGoalAmount = Undefined
                            => new.saving_goal_amount = old.saving_goal_amount
                      /\ r.weeklyBudgetAmount = Undefined
                            => new.weekly_budget_amount = old.weekly_budget_amount
                      /\ r.incomeAmount # Undefined
                            => Some(new.income_amount) = Cents(r.incomeAmount)
                      /\ r.savingGoalAmount # Undefined
                            => Some(new.saving_goal_amount) = Cents(r.savingGoalAmount)
                      /\ r.weeklyBudgetAmount # Undefined
                            => Some(new.weekly_budget_amount) = Cents(r.weeklyBudgetAmount)
                      /\ new = [old EXCEPT !.income_amount = new.income_amount,
                                           !.saving_goal_amount = new.saving_goal_amount,
                                           !.weekly_budget_amount = new.weekly_budget_amount]
                      /\ weeks' =
                           {IF /\ r.weeklyBudgetAmount # Undefined
                               /\ new.weekly_budget_amount # old.weekly_budget_amount
                               /\ w.month_id = id
                               /\ w.status = "OPEN"
                            THEN [w EXCEPT !.cash_withdraw_amount = new.weekly_budget_amount]
                            ELSE w : w \in weeks}]_vars

\* a month's weekly budget has just been changed: its OPEN week carries the new
\* amount, its CLOSED week another one, and so does a week of another month
C18_Witness ==
    /\ res.op = "updateMonth"
    /\ res.status = 200
    /\ \E m \in months, w1 \in weeks, w2 \in weeks, w3 \in weeks :
          /\ m.id = res.body.id
          /\ w1.month_id = m.id /\ w1.status = "OPEN"
          /\ w1.cash_withdraw_amount = m.weekly_budget_amount
          /\ w2.month_id = m.id /\ w2.status = "CLOSED"
          /\ w2.cash_withdraw_amount # m.weekly_budget_amount
          /\ w3.month_id # m.id
          /\ w3.cash_withdraw_amount # m.weekly_budget_amount

\* C19: every row of the ledger has an amount above zero, in every state the
\* ledger-writing operations reach: createTransaction, updateTransaction,
\* closeMonth, closeWeek, cashReturn, the summary's cash withdrawal,
\* depositToPiggyBank, the safety-fund emergency and the extra income.
C19_AmountsPositive == \A t \in ledger : t.amount > 0

\* a write with amount "0" has just been refused while the ledger holds the rows
\* of two different operations
C19_Witness ==
    /\ res.op \in {"createTransaction", "updateTransaction", "recordExtraIncome",
                   "safetyEmergency", "depositToPiggyBank"}
    /\ res.status = 400
    /\ \E t \in ledger, u \in ledger : t.type # u.type

\* C20: every EXPENSE row of the ledger has a category reference, in every state
\* createTransaction, updateTransaction and deleteTransaction reach.
C20_ExpensesHaveCategory ==
    \A t \in ledger : t.type = "EXPENSE" => t.category_id # NULL

\* the rows of one type, whatever their month
RowsOfType(rows, type) == {t \in rows : t.type = type}

\* C21: the balance safetyBalance answers is the sum of the CONSOLIDATE_TO_SAFETY
\* rows minus the sum of the EMERGENCY_FROM_SAFETY rows of the whole ledger,
\* whatever their month; recording an extra income, a piggy-bank deposit, a cash
\* return, a week's closing, the weekly withdrawal, or a transaction created
\* with another type, leaves that balance as it was.
C21_SafetyBalanceGlobal ==
    [][/\ (res'.op = "safetyBalance")
          => res'.body.balance
               = SumAmounts(RowsOfType(ledger, "CONSOLIDATE_TO_SAFETY"))
                 - SumAmounts(RowsOfType(ledger, "EMERGENCY_FROM_SAFETY"))
       /\ (\/ res'.op \in {"recordExtraIncome", "depositToPiggyBank", "cashReturn",
                            "closeWeek", "currentSummary"}
           \/ /\ res'.op = "createTransaction"
              /\ \A t \in ledger' \ ledger :
                    t.type \notin {"CONSOLIDATE_TO_SAFETY", "EMERGENCY_FROM_SAFETY"})
          => getSafetyBalance([ledger |-> ledger']) = getSafetyBalance([ledger |-> ledger])
      ]_vars

\* the balance has just been read from a ledger holding a consolidation and an
\* emergency
C21_Witness ==
    /\ res.op = "safetyBalance"
    /\ \E t \in ledger, u \in ledger :
          /\ t.type = "CONSOLIDATE_TO_SAFETY"
          /\ u.type = "EMERGENCY_FROM_SAFETY"
          /\ res.body.balance = t.amount - u.amount

Padded(s) == <<" ">> \o s \o <<" ">>

\* the text with every comma written as a dot
CommasAsDots(s) == [i \in 1..Len(s) |-> IF s[i] = "," THEN "." ELSE s[i]]

\* the position of the first separator of the text, 0 when it has none
FirstSeparator(s) ==
    IF \E i \in 1..Len(s) : s[i] \in {".", ","}
    THEN CHOOSE i \in 1..Len(s) : s[i] \in {".", ","} /\ \A j \in 1..(i - 1) : s[j] \notin {".", ","}
    ELSE 0

\* the text without the separators that follow its first one
FirstSeparatorOnly(s) ==
    LET i == FirstSeparator(s)
    IN  IF i = 0 THEN s
        ELSE SubSeq(s, 1, i) \o SelectSeq(SubSeq(s, i + 1, Len(s)), LAMBDA c : c \notin {".", ","})

\* C23: parseMoneyToCents gives 350, 350, 300 and 350 for "3.50", "3,50", "3"
\* and " 3.5 ", and an integer for "1.234.56"; a text of digits gives a hundred
\* times its number; a comma counts as a dot, surrounding spaces count for
\* nothing, and the separators after the first one count for nothing.
C23_ParseDecimalText ==
    (out # NULL /\ arg.kind = "text" /\ arg.value # Undefined)
    => LET x == arg.value
           cents == Val(out).cents
       IN  /\ x = <<"3", ".", "5", "0">> => cents = Some(350)
           /\ x = <<"3", ",", "5", "0">> => cents = Some(350)
           /\ x = <<"3">> => cents = Some(300)
           /\ x = <<" ", "3", ".", "5", " ">> => cents = Some(350)
           /\ x = <<"1", ".", "2", "3", "4", ".", "5", "6">> => cents = Some(123)
           /\ (x # <<>> /\ \A i \in 1..Len(x) : IsDigit(x[i]))
                => cents = Some(100 * DigitsToNat(x))
           /\ cents = parseMoneyToCents(CommasAsDots(x))
           /\ cents = parseMoneyToCents(Padded(x))
           /\ cents = parseMoneyToCents(FirstSeparatorOnly(x))

\* "3,50" has been parsed
C23_Witness ==
    /\ out # NULL
    /\ arg = [kind |-> "text", value |-> <<"3", ",", "5", "0">>]
    /\ Val(out).cents = Some(350)

\* C24: for a text with no digit in it, such as "abc", parseMoneyToCents gives
\* null, never 0.
C24_NoDigitIsNull ==
    (out # NULL /\ arg.kind = "text" /\ \A i \in 1..Len(arg.value) : ~IsDigit(arg.value[i]))
    => Val(out).cents = NULL

\* a decimal amount with at most two decimals: digits, possibly one separator
\* among them, possibly spaces around
IsAmountText(x) ==
    LET s == Trim(x)
        i == FirstSeparator(s)
    IN  /\ x # Undefined
        /\ \E k \in 1..Len(s) : IsDigit(s[k])
        /\ \A k \in 1..Len(s) : IsDigit(s[k]) \/ k = i
        /\ i # 0 => Len(s) - i <= 2

\* the number an amount text writes, as euros and hundredths
AmountValue(x) ==
    LET s == Trim(x)
        i == FirstSeparator(s)
        whole == IF i = 0 THEN s ELSE SubSeq(s, 1, i - 1)
        dec   == IF i = 0 THEN <<>> ELSE SubSeq(s, i + 1, Len(s))
    IN  Eur(DigitsToNat(whole), DigitsToNat(dec \o [k \in 1..(2 - Len(dec)) |-> "0"]))

\* C25: for an amount text x with at most two decimals,
\* centsToEur(parseMoneyToCents(x)) is the number x writes; for a number of
\* cents c from 0 up, parseMoneyToCents(centsToEur(c)) is c.
C25_RoundTrip ==
    out # NULL
    => /\ (arg.kind = "text" /\ IsAmountText(arg.value))
            => Val(out).eur = Some(AmountValue(arg.value))
       /\ arg.kind = "cents" => Val(out).cents = Some(arg.value)

\* 3.05 euros have been written out and read back as 305 cents
C25_Witness ==
    /\ out # NULL
    /\ arg = [kind |-> "cents", value |-> 305]
    /\ Val(out).eur = Some(Eur(3, 5))
    /\ Val(out).cents = Some(305)

\* C26: currentSummary takes as current week the week of the open month that
\* contains today and, when none does, the week of that month with the highest
\* index; that week is the one the summary names, whose remaining cash it
\* reports, and whose withdrawal it records.
C26_SummaryWeekFallsBack ==
    [][(res'.op = "currentSummary" /\ res'.body # NULL)
       => LET ws  == {w \in weeks : w.month_id = res'.body.month}
              hit == {w \in ws : w.start_date <= today /\ w.end_date >= today}
              resolved == IF hit # {}
                          THEN {w \in hit : \A o \in hit : w.week_index <= o.week_index}
                          ELSE {w \in ws : \A o \in ws : w.week_index >= o.week_index}
          IN  /\ res'.body.week = {w.id : w \in resolved}
              /\ \A w \in resolved :
                    (w.cash_withdraw_amount > 0 /\ tx' # "rolled back")
                    => \E t \in ledger' : /\ t.type = "CASH_WITHDRAWAL"
                                          /\ t.week_id = Some(w.id)]_vars

\* C27: when the store fails while currentSummary records the weekly cash
\* withdrawal, currentSummary answers with a failure, not with a summary.
C27_SummaryReportsFailure ==
    [][(res'.op = "currentSummary" /\ tx' = "rolled back") => res'.status >= 500]_vars

\* what week id has returned to the bank so far, in a set of weeks
Returned(ws, id) == (CHOOSE w \in ws : w.id = id).cash_returned_to_bank_amount

\* C28: a week is created with nothing returned to the bank, and the amount it
\* has returned never goes down; a successful cashReturn raises it by the
\* amount of the request, a successful closeWeek by its returnToBankAmount, and
\* neither touches another week's.
C28_ReturnedOnlyGrows ==
    [][/\ \A n \in weeks' :
            IF ById(weeks, n.id) = {} THEN n.cash_returned_to_bank_amount = 0
            ELSE n.cash_returned_to_bank_amount >= Returned(weeks, n.id)
       /\ (res'.op = "cashReturn" /\ res'.status = 200)
          => \A id \in WeekIds, a \in CashReturnRequests :
               CashReturn(id, a)
               => \A n \in weeks' :
                    n.cash_returned_to_bank_amount
                      = Returned(weeks, n.id) + (IF n.id = id THEN Val(Cents(a)) ELSE 0)
       /\ (res'.op = "closeWeek" /\ res'.status = 200)
          => \A id \in WeekIds, r \in CloseWeekRequests, f \in {0, 2, 7} :
               CloseWeek(id, r.piggyTwoAmount, r.piggyNormalAmount, r.returnToBankAmount,
                         r.note, f)
               => \A n \in weeks' :
                    n.cash_returned_to_bank_amount
                      = Returned(weeks, n.id)
                        + (IF n.id = id THEN OrZero(Cents(r.returnToBankAmount)) ELSE 0)
      ]_vars

\* a second cash return has just brought a week's returned amount to 10 euros
C28_Witness ==
    /\ res.op = "cashReturn"
    /\ res.status = 200
    /\ res.body.cash_returned_to_bank_amount = 1000

\* C29: the weeks generated for a month carry the indices 1, 2, ... in the order
\* of their start dates; every week but the first starts on a Monday, every
\* week but the last ends on a Sunday, none is longer than 7 days, and there
\* are between 1 and 6 of them.
C29_WeeksIndexedMondayToSunday ==
    out # NULL =>
        LET ws == Val(out)
        IN  /\ Len(ws) \in 1..6
            /\ \A i \in 1..Len(ws) : ws[i].week_index = i
            /\ \A i \in 1..(Len(ws) - 1) : ws[i].start_date < ws[i + 1].start_date
            /\ \A i \in 2..Len(ws) : GetDay(ws[i].start_date) = 1
            /\ \A i \in 1..(Len(ws) - 1) : GetDay(ws[i].end_date) = 0
            /\ \A i \in 1..Len(ws) : ws[i].end_date - ws[i].start_date + 1 <= 7

\* a month begun on the Sunday that is its first day has six weeks, the first
\* and the last of one day
C29_Witness ==
    /\ out # NULL
    /\ Len(Val(out)) = 6
    /\ Val(out)[1].start_date = Val(out)[1].end_date
    /\ Val(out)[6].start_date = Val(out)[6].end_date

\* the direction the types of the ledger are written with
CanonicalDirection ==
    [type \in TxTypes |-> IF type \in {"EXTRA_INCOME", "CASH_RETURN", "CONSOLIDATE_TO_SAFETY"}
                          THEN "IN" ELSE "OUT"]

\* C30: every row of the ledger has the direction of its type: OUT for EXPENSE,
\* CASH_WITHDRAWAL, EMERGENCY_FROM_SAFETY and PIGGYBANK_DEPOSIT, IN for
\* EXTRA_INCOME, CASH_RETURN and CONSOLIDATE_TO_SAFETY, also when the row comes
\* from createTransaction with a type and no direction.
C30_CanonicalDirection == \A t \in ledger : t.direction = CanonicalDirection[t.type]

\* the body of PUT /transactions/:id passes its validation
ValidEdit(r) ==
    /\ Cents(r.amount) # NULL /\ Val(Cents(r.amount)) > 0
    /\ r.attribution # "" /\ r.payment_method # ""

\* what updateTransaction leaves alone: the months, the weeks, the entries, the
\* rows with another id, and type, direction, month and week of the row
EditFrame(id) ==
    /\ UNCHANGED <<months, weeks, entries>>
    /\ {t.id : t \in ledger'} = {t.id : t \in ledger}
    /\ \A t \in ledger : t.id # id => t \in ledger'
    /\ \A t \in ledger, n \in ledger' :
          (t.id = id /\ n.id = id)
          => /\ n.type = t.type /\ n.direction = t.direction
             /\ n.month_id = t.month_id /\ n.week_id = t.week_id

\* C31: updateTransaction leaves the type, direction, month and week of the row
\* it names, and every other row, as they were; when it succeeds the row has
\* the amount, category, attribution, payment method, concept and note of the
\* body, and its timestamp when the body has one; a body that fails the
\* validation is answered 400 whatever the id; a valid body for an id that
\* names no row is answered not-found; both leave the ledger unchanged.
C31_UpdateTransactionFrame ==
    [][(res'.op = "updateTransaction")
       => \A id \in TxIds, r \in EditRequests :
            UpdateTransaction(id, r)
            => /\ EditFrame(id)
               /\ ~ValidEdit(r) => res'.status = 400 /\ UNCHANGED ledger
               /\ (ValidEdit(r) /\ ById(ledger, id) = {})
                    => /\ res'.status = 404
                       /\ res'.error = "Movimiento no encontrado"
                       /\ UNCHANGED ledger
               /\ res'.status = 200
                    => \E n \in ledger' :
                         /\ n.id = id
                         /\ n.amount = Val(Cents(r.amount))
                         /\ n.category_id = OrNull(r.category_id)
                         /\ n.attribution = r.attribution
                         /\ n.payment_method = r.payment_method
                         /\ n.note = OrNull(r.note)
                         /\ r.date_time # NULL => n.date_time = Val(r.date_time)]_vars

\* the week's withdrawal has just been edited: new amount and day, same week
C31_Witness ==
    /\ res.op = "updateTransaction"
    /\ res.status = 200
    /\ res.body.type = "CASH_WITHDRAWAL"
    /\ res.body.week_id # NULL
    /\ res.body.amount = 300
    /\ res.body.date_time = 29

\* C31 as stated: updateTransaction on an id that names no row is answered
\* not-found, whatever its body, and changes nothing.
C31_UnknownIdNotFound ==
    [][(res'.op = "updateTransaction")
       => \A id \in TxIds, r \in EditRequests :
            (UpdateTransaction(id, r) /\ ById(ledger, id) = {})
            => res'.status = 404 /\ UNCHANGED ledger]_vars

C33_AcknowledgedWritesStay ==
    \A row \in arg : row \in ledger \/ \E q \in inflight : row \in q.pending

\* C34: of the closeWeek requests for one week at most one succeeds, and the
\* deposits and the return of a week are recorded at most once: a closeWeek
\* request that is answered 200 ends on a week that is still OPEN.
C34_OneCloseSucceeds ==
    [][\A q \in inflight \ inflight' :
          (res'.op = "closeWeek" /\ res'.status = 200)
          => \E w \in weeks : w.id = q.week.id /\ WeekIsOpen(w)]_vars

\* C35: closeWeek never leaves the pocket cash of a month below zero, also when
\* the closeWeek requests of two different weeks of the month interleave: as
\* long as no week has been closed twice, the pocket cash of every month is
\* zero or more.
C35_PocketCashNotNegative ==
    (\A t1, t2 \in ledger :
        (t1.week_id # NULL /\ t1.week_id = t2.week_id /\ t1.type = t2.type) => t1 = t2)
    => \A m \in months : getCashBalanceForMonth(DB, m.id) >= 0

\* C36: for every week, the cash-returned accumulator equals the sum of the
\* amounts of the CASH_RETURN rows of the ledger tagged with the week.
C36_ReturnedMatchesLedger ==
    \A w \in weeks :
        w.cash_returned_to_bank_amount
            = SumAmounts({t \in ledger : t.type = "CASH_RETURN" /\ t.week_id = Some(w.id)})

\* C37: deleteMonth leaves the balance of the safety fund, which is global,
\* unchanged.
C37_DeleteMonthKeepsSafetyBalance ==
    [][res'.op = "deleteMonth"
       => getSafetyBalance([DB EXCEPT !.ledger = ledger']) = getSafetyBalance(DB)]_vars

\* C38: for every CLOSED month, the amount consolidated into the safety fund
\* equals max(0, income + the EXTRA_INCOME rows - the EXPENSE rows) of the
\* month as they are now: nothing changes them after the month is closed.
C38_ConsolidationMatchesMonth ==
    \A m \in months :
        m.status = "CLOSED"
        => SumAmounts({t \in ledger : t.type = "CONSOLIDATE_TO_SAFETY" /\ t.month_id = m.id})
           = Max(0, m.income_amount + SumOfType(DB, m.id, "EXTRA_INCOME")
                    - SumOfType(DB, m.id, "EXPENSE"))

\* C39: for every week with a CASH_WITHDRAWAL row, the amount of the row equals
\* the week's cash_withdraw_amount, also after updateMonth has changed the
\* weekly budget of the month.
C39_WithdrawalMatchesWeek ==
    \A w \in weeks :
        \A t \in ledger :
            (t.type = "CASH_WITHDRAWAL" /\ t.week_id = Some(w.id))
            => t.amount = w.cash_withdraw_amount

====
